---- MODULE Spec2Model ----
(***************************************************************************)
(* Model of the ubuntu-manpages ingest pipeline.                           *)
(*                                                                         *)
(*   Spec       the pipeline Runner: Run starts one worker per release,    *)
(*              every worker walks its package list (runRelease,           *)
(*              processPackage, processManpage), Run then closes the       *)
(*              indexer and generates the sitemaps.                        *)
(*   SpecRerun  the same Runner, one release, run twice over the same      *)
(*              output root (the cache and the artifacts persist).         *)
(*   SpecFetch  Fetcher.FetchPackages: the concurrent fetch of the         *)
(*              (pocket, repo, arch) cells and the merge by version.       *)
(*   SpecScratch the Runner, one release, in a work directory that may     *)
(*              refuse removals.                                           *)
(*   SpecDeb    Fetcher.FetchDeb: the download attempts and their backoff. *)
(*   SpecParse  parsePackages over an index of a few stanzas.              *)
(*   SpecStorage FSStorage.writeFileAbsolute with a concurrent reader.     *)
(*   SpecIndexer SQLiteIndexer.IndexManpage and Close, called by several   *)
(*              goroutines.                                                *)
(*   SpecToc    the heading ids of the table of contents.                  *)
(*   SpecSitemap sitemap.Generate over a small output tree.                *)
(*   SpecMutex  the critical sections of Runner.mu in Run and runRelease.  *)
(*   SpecPaths  ParseManpagePath over the manpage files of one package.    *)
(*   SpecConvert ConvertManpage: mandoc, with tbl for pages with tables.   *)
(***************************************************************************)
EXTENDS Integers, Sequences, FiniteSets, TLC

VARIABLES
    (* ---- Runner (src/unnamed/part_002) ---- *)
    releases,        \* the argument of Run: the releases to ingest
    index,           \* the archive: release -> package list of its index
    ForceProcess,    \* Runner.ForceProcess
    logOpenOk,       \* the failure logs under Runner.FailuresDir can be opened
    rmOk,            \* files of the work directory can be removed
    ctxDone,         \* the context handed to Run has been cancelled
    runPc,           \* position of Run itself
    runResult,       \* value returned by Run
    firstErr,        \* Run's firstErr, set under errOnce
    pc,              \* position of each release worker (goroutine in Run)
    packages,        \* per worker: the list returned by FetchPackages
    pkgIdx,          \* per worker: position in the range loop of runRelease
    manpages,        \* per worker: the list returned by ExtractManpages
    mpIdx,           \* per worker: position in the loop of processPackage
    statuses,        \* Runner.statuses
    releaseFailures, \* Runner.releaseFailures
    failLog,         \* the <release>-failures.log files
    scratch,         \* per worker: what lies in the release's work directory
    html,            \* output tree manpages/<release>/...
    gz,              \* output tree manpages.gz/<release>/...
    cache,           \* manpages/<release>/.cache/<package>
    indexer,         \* the search indexer: rows accepted, closed or not
    sitemaps,        \* outcome of SitemapGenerator.Generate
    (* ---- history of the current run, read by the properties only ---- *)
    run,             \* number of the current run
    conv,            \* per manpage: was the converter invoked, and how it ended
    mpErr,           \* per manpage: the error ProcessSingleManpage returned
    unreadable,      \* cache files whose ReadFile failed in CheckCache
    wrote,           \* file writes (WriteHTML, WriteGzip, WriteCache) attempted
    errOrder,        \* workers in the order in which errOnce.Do saw them fail
    prev,            \* the previous run: its index, the packages it completed
    (* ---- Fetcher.FetchPackages (src/internal/fetcher/fetcher.go) ---- *)
    cells,           \* content served for each (pocket, repo, arch) cell
    results,         \* results[i]: what the goroutine of cell i stored
    merged,          \* the packages map of the merge
    mergeIdx,        \* position of the merge loop over results
    fetchPc,         \* position of FetchPackages
    fetchOut,        \* value returned by FetchPackages
    overtaken,       \* history: a cell finished before a cell of lower index
    (* ---- Fetcher.FetchDeb (src/internal/fetcher/fetcher.go) ---- *)
    debPc,           \* position of FetchDeb
    debAttempt,      \* the loop variable attempt
    debLastErr,      \* lastErr
    debOut,          \* value returned by FetchDeb
    debRequests,     \* history: how each download attempt ended
    debFiles,        \* what lies in WorkDir: the temp file, the .deb
    debCtxDone,      \* the context handed to FetchDeb has been cancelled
    (* ---- parsePackages (src/internal/fetcher/fetcher.go) ---- *)
    parseStanzas,    \* the index file: per stanza, the fields it holds
    parseLines,      \* the index file: its lines, as the scanner yields them
    parsePc,         \* position of parsePackages
    parseOut,        \* value returned by parsePackages
    (* ---- FSStorage.writeFileAbsolute (storage_fs.go) ---- *)
    storeFs,         \* the output tree: what each path holds
    storeFs0,        \* history: the output tree before the write
    storeOp,         \* the storage call: WriteHTML, WriteGzip or WriteCache
    storePc,         \* position of writeFileAbsolute
    storeFd,         \* the path the file opened by os.WriteFile resolved to
    storeOut,        \* the error writeFileAbsolute returned
    storeSeen,       \* history: what concurrent readers of the path observed
    (* ---- SQLiteIndexer (src/internal/search/sqlite_indexer.go) ---- *)
    sqlite,          \* the indexer: mu, tx, count, the database and its batches
    ixPc,            \* position of each goroutine inside IndexManpage or Close
    ixCalls,         \* number of IndexManpage calls each worker has started
    ixRes,           \* the error the call in progress is about to return
    ixOk,            \* history: documents whose IndexManpage returned nil
    (* ---- bGenerateTOC (src/internal/transform/toc.go) ---- *)
    tocHeadings,     \* the h2 headings of the fragment: the text of each
    tocI,            \* the loop index i over the matches
    tocSeen,         \* the map seen
    tocBody,         \* the id attributes written to the headings of the body
    tocLinks,        \* the href targets of the TOC items
    tocPc,           \* position of bGenerateTOC
    (* ---- SitemapGenerator (src/internal/sitemap/sitemap.go) ---- *)
    smTree,          \* the manpages tree under Root: per release, its directories
    smCtxDone,       \* the context handed to Generate has been cancelled
    smPc,            \* position of Generate
    smRel,           \* index of the release the loop of Generate is at
    smTodo,          \* entries of the release directory still to visit
    smRefs,          \* indexRefs: the files the index will reference
    smFiles,         \* the sitemap files written to the sitemaps directory
    smIndex,         \* sitemap-index.xml: whether written, and its references
    smLog,           \* the warnings logged
    smErr,           \* the error Generate returned ("" for nil)
    (* ---- Runner.mu (src/unnamed/part_002) ---- *)
    rmMu,            \* the goroutine that holds r.mu, 0 when it is free
    rmPc,            \* position of each release goroutine
    rmRunPc,         \* position of Run
    rmLeft,          \* packages each goroutine has still to process
    rmAfter,         \* where recordFailure returns to
    rmStat,          \* r.statuses
    rmFail,          \* r.releaseFailures: the number of messages per release
    rmRace,          \* history: shared record accessed without r.mu by a live run
    (* ---- ParseManpagePath (src/internal/pipeline/paths.go) ---- *)
    ppFiles,         \* the manpage files found in the packages of one release
    ppOut,           \* the ManpagePaths returned for each of them, in order
    ppPc,            \* position: files resolved so far
    (* ---- Converter.ConvertManpage (src/unnamed/part_000) ---- *)
    cvContent,       \* the manpage source, as its lines
    cvCtxDone,       \* the context handed to ConvertManpage has been cancelled
    cvPc,            \* position of ConvertManpage
    cvAttempts,      \* history: the subprocess runs, in order
    cvErr            \* whether ConvertManpage returned an error

runnerVars == <<releases, index, ForceProcess, logOpenOk, rmOk, ctxDone, runPc, runResult,
                firstErr, pc, packages, pkgIdx, manpages, mpIdx, statuses,
                releaseFailures, failLog, scratch, html, gz, cache, indexer,
                sitemaps, run, conv, mpErr, unreadable, wrote, errOrder, prev>>
\* What only the start of a run sets.
cfgVars == <<releases, index, ForceProcess, logOpenOk, rmOk, run, prev>>
fetchVars == <<cells, results, merged, mergeIdx, fetchPc, fetchOut, overtaken>>
debVars == <<debPc, debAttempt, debLastErr, debOut, debRequests, debFiles,
             debCtxDone>>
\* The variables of the operations that are modelled on their own.
parseVars == <<parseStanzas, parseLines, parsePc, parseOut>>
storeVars == <<storeFs, storeFs0, storeOp, storePc, storeFd, storeOut, storeSeen>>
ixVars == <<sqlite, ixPc, ixCalls, ixRes, ixOk>>
tocVars == <<tocHeadings, tocI, tocSeen, tocBody, tocLinks, tocPc>>
smVars == <<smTree, smCtxDone, smPc, smRel, smTodo, smRefs, smFiles, smIndex, smLog, smErr>>
rmVars == <<rmMu, rmPc, rmRunPc, rmLeft, rmAfter, rmStat, rmFail, rmRace>>
ppVars == <<ppFiles, ppOut, ppPc>>
cvVars == <<cvContent, cvCtxDone, cvPc, cvAttempts, cvErr>>
unitVars == <<debVars, parseVars, storeVars, ixVars, tocVars, smVars, rmVars, ppVars, cvVars>>
vars == <<runnerVars, fetchVars, unitVars>>

(***************************************************************************)
(* The archive the runner is pointed at.                                   *)
(***************************************************************************)

\* Number of regular manpages in package "foo".
MaxManpages == 2

nil == <<>>

\* The releases of the archive, and the list Run is given in Spec.
AllReleases == {"jammy", "noble", "focal"}

Releases == <<"jammy", "noble">>

\* Package names listed by the index of a release.
IndexNames(rel) ==
    CASE rel = "jammy" -> <<"foo", "bar">>
      [] rel = "noble" -> <<"baz">>
      [] OTHER         -> <<"baz", "qux">>

PkgNames == {"foo", "bar", "baz", "qux"}

\* The manpage files ExtractManpages finds in the .deb of a package: a
\* regular page, a filesystem symlink, or a page whose first line is ".so".
DebContents(name) ==
    CASE name = "foo" -> [i \in 1..MaxManpages |-> "regular"]
      [] name = "bar" -> <<"symlink", "so">>
      [] name = "qux" -> <<"so">>
      [] OTHER        -> <<"regular">>

MaxPages == IF MaxManpages > 2 THEN MaxManpages ELSE 2

\* A manpage of the archive: package name and position in the package.
Ids == {id \in PkgNames \X (1..MaxPages) : id[2] <= Len(DebContents(id[1]))}

Sha1s == {"s1", "s2"}

InitialIndex ==
    [rel \in AllReleases |->
        [i \in 1..Len(IndexNames(rel)) |->
            [Name |-> IndexNames(rel)[i], SHA1 |-> "s1"]]]

Workers == 1..Len(releases)

(***************************************************************************)
(* Storage (src/internal/storage/storage_fs.go)                            *)
(***************************************************************************)

\* What a path of the output tree holds.
FileKinds == {"absent", "file", "symlink", "partial"}

\* writeFileAbsolute that returns an error: MkdirAll or Remove failed (the
\* path is as before), or WriteFile failed after the Remove (nothing there,
\* or a file with part of the content).
writeFileAbsoluteFailed(old) == {old, "absent", "partial"}

\* writeSymlink that returns an error: as before, or removed.
writeSymlinkFailed(old) == {old, "absent"}

\* CheckCache: the cache file can be read (it exists and ReadFile returned
\* no error) and its content equals sha1.
CheckCache_Never(data, readOk, sha1) == FALSE

CheckCache(data, readOk, sha1) == data # "absent" /\ readOk /\ data = sha1

\* WriteCache that returns an error.
WriteCacheFailed(old) == {old, "absent", "partial"}

(***************************************************************************)
(* Runner                                                                  *)
(***************************************************************************)

ReleaseStatus(rel) ==
    [Release |-> rel, Stage |-> "waiting", Total |-> 0, Done |-> 0,
     Skipped |-> 0, Errors |-> 0, FailuresPath |-> ""]

\* recordFailure: append the message, count it, and append it to the
\* failure log when the log can be opened (logOk: OpenFile returned no error).
recordFailure(st, idx, stage, path, logOk) ==
    [failures |-> [st.failures EXCEPT ![idx] = Append(@, <<stage, path>>)],
     statuses |-> [st.statuses EXCEPT ![idx].Errors = @ + 1],
     log      |-> IF st.statuses[idx].FailuresPath # "" /\ logOk
                  THEN [st.log EXCEPT ![st.statuses[idx].Release] =
                            Append(@, <<stage, path>>)]
                  ELSE st.log]

shared == [failures |-> releaseFailures, statuses |-> statuses, log |-> failLog]

\* errOnce.Do(func() { firstErr = err })
errOnceDo_Last(cur, err) == err

errOnceDo(cur, err) == IF cur = nil THEN err ELSE cur

\* wg.Wait() in Run returns.
wgWait_NoWait == TRUE

wgWait == \A w \in Workers : pc[w] = "returned"

EmptyScratch == [deb |-> FALSE, dir |-> FALSE]

\* The deferred calls of processPackage (lines 353 and 359) at its return:
\* os.Remove(debPath) and cleanup(), whose errors are dropped. What they
\* cannot remove stays.
deferredCleanup_None(sc, ok) == sc

deferredCleanup(sc, ok) == [deb |-> sc.deb /\ ~ok, dir |-> sc.dir /\ ~ok]

\* The indexer as constructed: no row, Close not called, database open.
\* closeErr is the error Close returned.
NewSQLiteIndexer ==
    [rows |-> {}, closeCalled |-> FALSE, dbClosed |-> FALSE, closeErr |-> nil]

NoConv == [rel \in AllReleases |-> [id \in Ids |-> "none"]]

InitRunnerIn(rels, force, logOk, rm) ==
    /\ releases = rels
    /\ index = InitialIndex
    /\ ForceProcess \in force
    /\ logOpenOk \in logOk
    /\ rmOk \in rm
    /\ ctxDone = FALSE
    /\ runPc = "idle"
    /\ runResult = nil
    /\ firstErr = nil
    /\ pc = [w \in 1..Len(rels) |-> "idle"]
    /\ packages = [w \in 1..Len(rels) |-> <<>>]
    /\ pkgIdx = [w \in 1..Len(rels) |-> 1]
    /\ manpages = [w \in 1..Len(rels) |-> <<>>]
    /\ mpIdx = [w \in 1..Len(rels) |-> 1]
    /\ statuses = <<>>
    /\ releaseFailures = <<>>
    /\ failLog = [rel \in AllReleases |-> <<>>]
    /\ scratch = [w \in 1..Len(rels) |-> EmptyScratch]
    /\ html = [rel \in AllReleases |-> [id \in Ids |-> "absent"]]
    /\ gz = [rel \in AllReleases |-> [id \in Ids |-> "absent"]]
    /\ cache = [rel \in AllReleases |-> [n \in PkgNames |-> "absent"]]
    /\ indexer = NewSQLiteIndexer
    /\ sitemaps = "none"
    /\ run = 1
    /\ conv = NoConv
    /\ mpErr = NoConv
    /\ unreadable = {}
    /\ wrote = {}
    /\ errOrder = <<>>
    /\ prev = [index |-> InitialIndex, ok |-> {}]

\* The runner in a work directory whose files can be removed.
InitRunner(rels, force, logOk) == InitRunnerIn(rels, force, logOk, {TRUE})

FetchIdle ==
    /\ cells = <<>>
    /\ results = <<>>
    /\ merged = <<>>
    /\ mergeIdx = 0
    /\ fetchPc = "idle"
    /\ fetchOut = nil
    /\ overtaken = FALSE

DebIdle ==
    /\ debPc = "idle"
    /\ debAttempt = 0
    /\ debLastErr = nil
    /\ debOut = nil
    /\ debRequests = <<>>
    /\ debFiles = {}
    /\ debCtxDone = FALSE

ParseIdle ==
    /\ parseStanzas = <<>>
    /\ parseLines = <<>>
    /\ parsePc = "idle"
    /\ parseOut = nil

StoreIdle ==
    /\ storeFs = <<>>
    /\ storeFs0 = <<>>
    /\ storeOp = ""
    /\ storePc = "idle"
    /\ storeFd = ""
    /\ storeOut = nil
    /\ storeSeen = {}

IndexerIdle ==
    /\ sqlite = <<>>
    /\ ixPc = <<>>
    /\ ixCalls = <<>>
    /\ ixRes = <<>>
    /\ ixOk = {}

TocIdle ==
    /\ tocHeadings = <<>>
    /\ tocI = 0
    /\ tocSeen = {}
    /\ tocBody = <<>>
    /\ tocLinks = <<>>
    /\ tocPc = "idle"

SitemapIdle ==
    /\ smTree = <<>>
    /\ smCtxDone = FALSE
    /\ smPc = "idle"
    /\ smRel = 0
    /\ smTodo = <<>>
    /\ smRefs = {}
    /\ smFiles = {}
    /\ smIndex = [written |-> FALSE, refs |-> {}]
    /\ smLog = {}
    /\ smErr = ""

MutexIdle ==
    /\ rmMu = 0
    /\ rmPc = <<>>
    /\ rmRunPc = "idle"
    /\ rmLeft = <<>>
    /\ rmAfter = <<>>
    /\ rmStat = <<>>
    /\ rmFail = <<>>
    /\ rmRace = FALSE

PathsIdle ==
    /\ ppFiles = <<>>
    /\ ppOut = <<>>
    /\ ppPc = 0

ConverterIdle ==
    /\ cvContent = <<>>
    /\ cvCtxDone = FALSE
    /\ cvPc = "idle"
    /\ cvAttempts = <<>>
    /\ cvErr = FALSE

UnitsIdle == DebIdle /\ ParseIdle /\ StoreIdle /\ IndexerIdle /\ TocIdle /\ SitemapIdle /\ MutexIdle /\ PathsIdle /\ ConverterIdle

Init == InitRunner(Releases, {FALSE}, BOOLEAN) /\ FetchIdle /\ UnitsIdle

(***************************************************************************)
(* Run (part_002:223-275) and the goroutine it starts per release          *)
(***************************************************************************)

RelOf(w) == releases[w]

\* Run up to wg.Wait(): the dependencies are present, the status records
\* are initialised and one goroutine per release is started.
RunStart ==
    /\ runPc = "idle"
    /\ runPc' = "wait"
    /\ statuses' = [w \in Workers |-> ReleaseStatus(releases[w])]
    /\ releaseFailures' = [w \in Workers |-> <<>>]
    /\ pc' = [w \in Workers |-> "start"]
    /\ UNCHANGED <<cfgVars, ctxDone, runResult, firstErr,
                   packages, pkgIdx, manpages, mpIdx, failLog, scratch, html,
                   gz, cache, indexer, sitemaps, conv, mpErr, unreadable, wrote, errOrder>>
    /\ UNCHANGED <<fetchVars, unitVars>>

\* The goroutine of Run when runRelease returned err # nil: errOnce.Do,
\* then Stage = "error" under the mutex, then wg.Done.
workerFails(w, err, st) ==
    /\ firstErr' = errOnceDo(firstErr, err)
    /\ errOrder' = Append(errOrder, [w |-> w, err |-> err])
    /\ statuses' = [st EXCEPT ![w].Stage = "error"]
    /\ pc' = [pc EXCEPT ![w] = "returned"]

\* The context handed to Run is cancelled by its owner.
Cancel ==
    /\ runPc = "wait"
    /\ ~ctxDone
    /\ ctxDone' = TRUE
    /\ UNCHANGED <<cfgVars, runPc, runResult, firstErr,
                   pc, packages, pkgIdx, manpages, mpIdx, statuses,
                   releaseFailures, failLog, scratch, html, gz, cache, indexer,
                   sitemaps, conv, mpErr, unreadable, wrote, errOrder>>
    /\ UNCHANGED <<fetchVars, unitVars>>

(***************************************************************************)
(* runRelease (part_002:277-330)                                           *)
(***************************************************************************)

\* Lines 279-298: the work directory, FailuresPath, the empty failure log.
runReleaseStart(w) ==
    /\ pc[w] = "start"
    /\ \E mkdirOk \in BOOLEAN :
        IF mkdirOk
        THEN /\ statuses' = [statuses EXCEPT
                    ![w].FailuresPath = <<RelOf(w), "failures.log">>]
             /\ failLog' = [failLog EXCEPT ![RelOf(w)] = <<>>]
             /\ pc' = [pc EXCEPT ![w] = "fetchPackages"]
             /\ UNCHANGED <<firstErr, errOrder>>
        ELSE /\ workerFails(w, <<"create release work dir", RelOf(w)>>, statuses)
             /\ UNCHANGED failLog
    /\ UNCHANGED <<cfgVars, ctxDone, runPc, runResult,
                   packages, pkgIdx, manpages, mpIdx, releaseFailures, scratch,
                   html, gz, cache, indexer, sitemaps, conv, mpErr, unreadable, wrote>>
    /\ UNCHANGED <<fetchVars, unitVars>>

\* Lines 304-312: FetchPackages (an HTTP request per cell, which fails once
\* the context is done), then Stage and Total.
runReleaseFetch(w) ==
    /\ pc[w] = "fetchPackages"
    /\ \E ok \in (IF ctxDone THEN {FALSE} ELSE BOOLEAN) :
        IF ok
        THEN /\ packages' = [packages EXCEPT ![w] = index[RelOf(w)]]
             /\ statuses' = [statuses EXCEPT
                    ![w].Stage = "processing",
                    ![w].Total = Len(index[RelOf(w)])]
             /\ pkgIdx' = [pkgIdx EXCEPT ![w] = 1]
             /\ pc' = [pc EXCEPT ![w] = "loop"]
             /\ UNCHANGED <<firstErr, errOrder>>
        ELSE /\ workerFails(w, <<"fetch packages", RelOf(w)>>, statuses)
             /\ UNCHANGED <<packages, pkgIdx>>
    /\ UNCHANGED <<cfgVars, ctxDone, runPc, runResult,
                   manpages, mpIdx, releaseFailures, failLog, scratch, html,
                   gz, cache, indexer, sitemaps, conv, mpErr, unreadable, wrote>>
    /\ UNCHANGED <<fetchVars, unitVars>>

\* Lines 323-329: the range loop is over, runRelease returns nil.
runReleaseDone(w) ==
    /\ pc[w] = "loop"
    /\ pkgIdx[w] > Len(packages[w])
    /\ pc' = [pc EXCEPT ![w] = "returned"]
    /\ UNCHANGED <<cfgVars, ctxDone, runPc, runResult,
                   firstErr, packages, pkgIdx, manpages, mpIdx, statuses,
                   releaseFailures, failLog, scratch, html, gz, cache, indexer,
                   sitemaps, conv, mpErr, unreadable, wrote, errOrder>>
    /\ UNCHANGED <<fetchVars, unitVars>>

CurPkg(w) == packages[w][pkgIdx[w]]

\* Where runRelease goes after processPackage returned err (lines 315-320):
\* the failure is recorded, Done is counted, the loop goes on.
afterPackageError_Abort(w) == "failed"

afterPackageError(w) == "loop"

\* processPackage returned err: its deferred calls have removed the .deb and
\* the extraction directory; runRelease records the failure and counts the
\* package as done.
packageErrorFrom(w, sc) ==
    LET r == recordFailure(shared, w, "package", CurPkg(w).Name, logOpenOk) IN
    /\ releaseFailures' = r.failures
    /\ failLog' = r.log
    /\ scratch' = [scratch EXCEPT ![w] = deferredCleanup(sc, rmOk)]
    /\ IF afterPackageError(w) = "loop"
       THEN /\ statuses' = [r.statuses EXCEPT ![w].Done = @ + 1]
            /\ pkgIdx' = [pkgIdx EXCEPT ![w] = @ + 1]
            /\ pc' = [pc EXCEPT ![w] = "loop"]
            /\ UNCHANGED <<firstErr, errOrder>>
       ELSE /\ workerFails(w, <<"package", CurPkg(w).Name>>, r.statuses)
            /\ UNCHANGED pkgIdx

\* processPackage returning an error with the work directory as it is.
packageError(w) == packageErrorFrom(w, scratch[w])

\* processPackage returned nil.
packageDone(w, st) ==
    /\ statuses' = [st EXCEPT ![w].Done = @ + 1]
    /\ pkgIdx' = [pkgIdx EXCEPT ![w] = @ + 1]
    /\ pc' = [pc EXCEPT ![w] = "loop"]

(***************************************************************************)
(* processPackage (part_002:332-374)                                       *)
(***************************************************************************)

\* Lines 337-347: the cache check, and the skip of an unchanged package.
processPackageBegin(w) ==
    /\ pc[w] = "loop"
    /\ pkgIdx[w] <= Len(packages[w])
    /\ \E readOk \in (IF cache[RelOf(w)][CurPkg(w).Name] = "absent"
                      THEN {FALSE} ELSE BOOLEAN) :
        IF /\ ~ForceProcess
           /\ CurPkg(w).Name # "" /\ CurPkg(w).SHA1 # ""
           /\ CheckCache(cache[RelOf(w)][CurPkg(w).Name], readOk, CurPkg(w).SHA1)
        THEN /\ packageDone(w, [statuses EXCEPT ![w].Skipped = @ + 1])
             /\ UNCHANGED unreadable
        ELSE /\ pc' = [pc EXCEPT ![w] = "fetchDeb"]
             /\ unreadable' =
                    IF cache[RelOf(w)][CurPkg(w).Name] # "absent" /\ ~readOk
                    THEN unreadable \cup {<<RelOf(w), CurPkg(w).Name>>}
                    ELSE unreadable
             /\ UNCHANGED <<statuses, pkgIdx>>
    /\ UNCHANGED <<cfgVars, ctxDone, runPc, runResult,
                   firstErr, packages, manpages, mpIdx, releaseFailures,
                   failLog, scratch, html, gz, cache, indexer, sitemaps, conv,
                   mpErr, wrote, errOrder>>
    /\ UNCHANGED <<fetchVars, unitVars>>

\* Lines 349-353: FetchDeb. A download with a done context fails.
processPackageFetchDeb(w) ==
    /\ pc[w] = "fetchDeb"
    /\ \E ok \in (IF ctxDone THEN {FALSE} ELSE BOOLEAN) :
        IF ok
        THEN /\ scratch' = [scratch EXCEPT ![w].deb = TRUE]
             /\ pc' = [pc EXCEPT ![w] = "extract"]
             /\ UNCHANGED <<statuses, pkgIdx, releaseFailures, failLog,
                            firstErr, errOrder>>
        ELSE packageError(w)
    /\ UNCHANGED <<cfgVars, ctxDone, runPc, runResult,
                   packages, manpages, mpIdx, html, gz, cache, indexer,
                   sitemaps, conv, mpErr, unreadable, wrote>>
    /\ UNCHANGED <<fetchVars, unitVars>>

\* Lines 355-359: ExtractManpages (dpkg-deb under the context). On an error
\* either MkdirTemp failed and no directory was made, or the extractor called
\* its own cleanup on the directory it made and dropped the error
\* (extract.go lines 34, 40 and 46).
processPackageExtract(w) ==
    /\ pc[w] = "extract"
    /\ \E ok \in (IF ctxDone THEN {FALSE} ELSE BOOLEAN) :
        IF ok
        THEN /\ scratch' = [scratch EXCEPT ![w].dir = TRUE]
             /\ manpages' = [manpages EXCEPT ![w] = DebContents(CurPkg(w).Name)]
             /\ mpIdx' = [mpIdx EXCEPT ![w] = 1]
             /\ pc' = [pc EXCEPT ![w] = "manpages"]
             /\ UNCHANGED <<statuses, pkgIdx, releaseFailures, failLog,
                            firstErr, errOrder>>
        ELSE /\ \E made \in BOOLEAN :
                    packageErrorFrom(w, [scratch[w] EXCEPT
                                            !.dir = made /\ ~rmOk])
             /\ UNCHANGED <<manpages, mpIdx>>
    /\ UNCHANGED <<cfgVars, ctxDone, runPc, runResult,
                   packages, html, gz, cache, indexer, sitemaps, conv, mpErr, unreadable, wrote>>
    /\ UNCHANGED <<fetchVars, unitVars>>

(***************************************************************************)
(* ProcessSingleManpage (part_002:395-462) and processManpage (376-390)    *)
(***************************************************************************)

Result(err, h, g, indexed, c, w) ==
    [err |-> err, html |-> h, gz |-> g, indexed |-> indexed, conv |-> c,
     wrote |-> w]

\* ProcessSingleManpage that returns after WriteHTML and IndexManpage.
ProcessSingleManpage_NoGzip(kind, oldHtml, oldGz, done, closed) ==
    {Result("nil", "file", oldGz, TRUE, "ok", {"html"})}

\* ProcessSingleManpage that writes the gzip source before it submits the
\* search document, and fails there.
ProcessSingleManpage_GzipFirst(kind, oldHtml, oldGz, done, closed) ==
    {Result("fatal", "file", "file", FALSE, "ok", {"html", "gz"})}

\* Every way ProcessSingleManpage can end for a manpage of the given kind
\* whose output paths hold oldHtml and oldGz: the error it returns ("nil",
\* "convert" for a *ConvertError, "fatal" for any other error), what the two
\* paths hold afterwards, whether the indexer accepted the document, how the
\* converter ended, and which files it tried to write. The steps run in the
\* order of the code and the first failing one returns. The converter is a
\* subprocess under the context (it fails when the context is done), and
\* IndexManpage fails on a closed database; the storage calls ignore their
\* context.
ProcessSingleManpage(kind, oldHtml, oldGz, done, closed) ==
    LET parseFails == {Result("fatal", oldHtml, oldGz, FALSE, "none", {})}
        symlink ==
            {Result("fatal", h, oldGz, FALSE, "none", {}) :
                h \in writeSymlinkFailed(oldHtml)}
            \cup {Result("fatal", "symlink", g, FALSE, "none", {}) :
                g \in writeSymlinkFailed(oldGz)}
            \cup {Result("nil", "symlink", "symlink", FALSE, "none", {})}
        so ==
            {Result("fatal", h, oldGz, FALSE, "none", {}) :
                h \in writeSymlinkFailed(oldHtml)}
            \cup {Result("nil", "symlink", oldGz, FALSE, "none", {})}
        convertFails == {Result("convert", oldHtml, oldGz, FALSE, "fail", {})}
        converted ==
            \* transform.Pipeline fails
            {Result("fatal", oldHtml, oldGz, FALSE, "ok", {})}
            \* WriteHTML fails
            \cup {Result("fatal", h, oldGz, FALSE, "ok", {"html"}) :
                h \in writeFileAbsoluteFailed(oldHtml)}
            \* IndexManpage fails
            \cup {Result("fatal", "file", oldGz, FALSE, "ok", {"html"})}
            \cup (IF closed THEN {} ELSE
                \* os.ReadFile fails
                {Result("fatal", "file", oldGz, TRUE, "ok", {"html"})}
                \* WriteGzip fails
                \cup {Result("fatal", "file", g, TRUE, "ok", {"html", "gz"}) :
                    g \in writeFileAbsoluteFailed(oldGz)}
                \cup {Result("nil", "file", "file", TRUE, "ok", {"html", "gz"})})
    IN  parseFails \cup
        CASE kind = "symlink" -> symlink
          [] kind = "so"      -> so
          [] OTHER            ->
                convertFails \cup (IF done THEN {} ELSE converted)

\* processManpage: what it returns for the error of ProcessSingleManpage. A
\* *ConvertError is recorded and nil is returned ("recorded").
processManpage_Propagate(err) == IF err = "convert" THEN "fatal" ELSE err

processManpage(err) == IF err = "convert" THEN "recorded" ELSE err

CurId(w) == <<CurPkg(w).Name, mpIdx[w]>>

\* Lines 361-365: one iteration of the loop over the manpages.
processPackageManpage(w) ==
    /\ pc[w] = "manpages"
    /\ mpIdx[w] <= Len(manpages[w])
    /\ LET rel == RelOf(w)
           id  == CurId(w)
       IN \E r \in ProcessSingleManpage(manpages[w][mpIdx[w]], html[rel][id],
                                        gz[rel][id], ctxDone, indexer.dbClosed) :
            /\ html' = [html EXCEPT ![rel][id] = r.html]
            /\ gz' = [gz EXCEPT ![rel][id] = r.gz]
            /\ conv' = [conv EXCEPT ![rel][id] = r.conv]
            /\ mpErr' = [mpErr EXCEPT ![rel][id] = r.err]
            /\ wrote' = wrote \cup {<<t, rel, id>> : t \in r.wrote}
            /\ indexer' = IF r.indexed
                          THEN [indexer EXCEPT !.rows = @ \cup {<<rel, id>>}]
                          ELSE indexer
            /\ CASE processManpage(r.err) = "nil" ->
                        /\ mpIdx' = [mpIdx EXCEPT ![w] = @ + 1]
                        /\ UNCHANGED <<statuses, releaseFailures, failLog,
                                       scratch, pkgIdx, pc, firstErr, errOrder>>
                 [] processManpage(r.err) = "recorded" ->
                        LET f == recordFailure(shared, w, "convert", id, logOpenOk)
                        IN /\ releaseFailures' = f.failures
                           /\ statuses' = f.statuses
                           /\ failLog' = f.log
                           /\ mpIdx' = [mpIdx EXCEPT ![w] = @ + 1]
                           /\ UNCHANGED <<scratch, pkgIdx, pc, firstErr,
                                          errOrder>>
                 [] OTHER ->
                        /\ packageError(w)
                        /\ UNCHANGED mpIdx
    /\ UNCHANGED <<cfgVars, ctxDone, runPc, runResult,
                   packages, manpages, cache, sitemaps, unreadable>>
    /\ UNCHANGED <<fetchVars, unitVars>>

\* Lines 367-373: every manpage returned nil; WriteCache, then return (the
\* deferred calls remove the .deb and the extraction directory).
processPackageWriteCache(w) ==
    /\ pc[w] = "manpages"
    /\ mpIdx[w] > Len(manpages[w])
    /\ LET rel == RelOf(w)
           pkg == CurPkg(w)
       IN \E ok \in BOOLEAN :
            /\ wrote' = wrote \cup {<<"cache", rel, pkg.Name>>}
            /\ IF ok
               THEN /\ cache' = [cache EXCEPT ![rel][pkg.Name] = pkg.SHA1]
                    /\ scratch' = [scratch EXCEPT ![w] = deferredCleanup(@, rmOk)]
                    /\ packageDone(w, statuses)
                    /\ UNCHANGED <<releaseFailures, failLog, firstErr, errOrder>>
               ELSE /\ \E c \in WriteCacheFailed(cache[rel][pkg.Name]) :
                            cache' = [cache EXCEPT ![rel][pkg.Name] = c]
                    /\ packageError(w)
    /\ UNCHANGED <<cfgVars, ctxDone, runPc, runResult,
                   packages, manpages, mpIdx, html, gz, indexer, sitemaps, conv,
                   mpErr, unreadable>>
    /\ UNCHANGED <<fetchVars, unitVars>>

(***************************************************************************)
(* Run after wg.Wait() (part_002:251-274)                                  *)
(***************************************************************************)

\* SQLiteIndexer.Close (sqlite_indexer.go:86-95): the ways it can end. The
\* commit of flush can fail only when a transaction is open, and then Close
\* returns before it closes the database.
CloseOutcomes(ix) ==
    {"ok", "db close failed"}
    \cup (IF ix.rows # {} THEN {"commit failed"} ELSE {})

\* Lines 253-257: Indexer.Close(); its error is returned at once.
RunCloseIndexer ==
    /\ runPc = "wait"
    /\ wgWait
    /\ \E out \in CloseOutcomes(indexer) :
        /\ indexer' = [indexer EXCEPT !.closeCalled = TRUE,
                                      !.dbClosed = (out # "commit failed"),
                                      !.closeErr = IF out = "ok" THEN nil ELSE <<out>>]
        /\ IF out = "ok"
           THEN /\ runPc' = "sitemap"
                /\ UNCHANGED runResult
           ELSE /\ runPc' = "returned"
                /\ runResult' = <<"close indexer", out>>
    /\ UNCHANGED <<cfgVars, ctxDone, firstErr, pc,
                   packages, pkgIdx, manpages, mpIdx, statuses, releaseFailures,
                   failLog, scratch, html, gz, cache, sitemaps, conv, mpErr, unreadable, wrote, errOrder>>
    /\ UNCHANGED <<fetchVars, unitVars>>

\* Lines 259-264: SitemapGenerator.Generate; its error is only logged.
\* Generate returns ctx.Err() before the first release when the context is
\* done.
RunGenerateSitemaps ==
    /\ runPc = "sitemap"
    /\ \E ok \in (IF ctxDone THEN {FALSE} ELSE BOOLEAN) :
        sitemaps' = IF ok THEN "generated" ELSE "failed"
    /\ runPc' = "summary"
    /\ UNCHANGED <<cfgVars, ctxDone, runResult, firstErr,
                   pc, packages, pkgIdx, manpages, mpIdx, statuses,
                   releaseFailures, failLog, scratch, html, gz, cache, indexer,
                   conv, mpErr, unreadable, wrote, errOrder>>
    /\ UNCHANGED <<fetchVars, unitVars>>

\* Lines 266-274: the summary, and return firstErr.
RunReturn ==
    /\ runPc = "summary"
    /\ runPc' = "returned"
    /\ runResult' = firstErr
    /\ UNCHANGED <<cfgVars, ctxDone, firstErr, pc,
                   packages, pkgIdx, manpages, mpIdx, statuses, releaseFailures,
                   failLog, scratch, html, gz, cache, indexer, sitemaps, conv, mpErr, unreadable, wrote, errOrder>>
    /\ UNCHANGED <<fetchVars, unitVars>>

Next ==
    \/ RunStart
    \/ Cancel
    \/ \E w \in Workers : runReleaseStart(w)
    \/ \E w \in Workers : runReleaseFetch(w)
    \/ \E w \in Workers : runReleaseDone(w)
    \/ \E w \in Workers : processPackageBegin(w)
    \/ \E w \in Workers : processPackageFetchDeb(w)
    \/ \E w \in Workers : processPackageExtract(w)
    \/ \E w \in Workers : processPackageManpage(w)
    \/ \E w \in Workers : processPackageWriteCache(w)
    \/ RunCloseIndexer
    \/ RunGenerateSitemaps
    \/ RunReturn

Spec == Init /\ [][Next]_vars

(***************************************************************************)
(* A second ingest over the same output root                               *)
(***************************************************************************)

\* The packages of worker w for which processPackage returned nil in the run
\* that just ended: counted in Done, and not recorded as a package failure.
Completed(w) ==
    {<<RelOf(w), packages[w][i].Name>> : i \in
        {j \in 1..Len(packages[w]) :
            /\ j <= statuses[w].Done
            /\ \A k \in 1..Len(releaseFailures[w]) :
                 releaseFailures[w][k] # <<"package", packages[w][j].Name>>}}

\* The archive index at the next run: the same packages, each with the same
\* or with a new SHA1.
NextIndexes ==
    LET running == {releases[w] : w \in Workers} IN
    {[rel \in AllReleases |->
        [i \in 1..Len(index[rel]) |->
            [Name |-> index[rel][i].Name,
             SHA1 |-> IF rel \in running THEN f[index[rel][i].Name]
                      ELSE index[rel][i].SHA1]]] :
     f \in [PkgNames -> Sha1s]}

\* A schema that creates the tables only when they are missing.
schema_IfNotExists(rows) == rows

\* The rows of the manpages table after db.Exec(schema) on a database that
\* held rows: DROP TABLE IF EXISTS, then CREATE TABLE.
schema(rows) == {}

\* The ingest command is started again with the same options: a new Runner,
\* a new indexer (which drops and recreates its tables) and a new context;
\* the output root with its artifacts, cache entries and failure logs is the
\* one the previous run left.
Rerun ==
    /\ runPc = "returned"
    /\ run = 1
    /\ run' = 2
    /\ index' \in NextIndexes
    /\ prev' = [index |-> index, ok |-> UNION {Completed(w) : w \in Workers}]
    /\ ctxDone' = FALSE
    /\ runPc' = "idle"
    /\ runResult' = nil
    /\ firstErr' = nil
    /\ pc' = [w \in Workers |-> "idle"]
    /\ packages' = [w \in Workers |-> <<>>]
    /\ pkgIdx' = [w \in Workers |-> 1]
    /\ manpages' = [w \in Workers |-> <<>>]
    /\ mpIdx' = [w \in Workers |-> 1]
    /\ statuses' = <<>>
    /\ releaseFailures' = <<>>
    /\ scratch' = scratch
    /\ indexer' = [NewSQLiteIndexer EXCEPT !.rows = schema(indexer.rows)]
    /\ sitemaps' = "none"
    /\ conv' = NoConv
    /\ mpErr' = NoConv
    /\ unreadable' = {}
    /\ wrote' = {}
    /\ errOrder' = <<>>
    /\ UNCHANGED <<releases, ForceProcess, logOpenOk, rmOk, failLog, html, gz,
                   cache>>
    /\ UNCHANGED <<fetchVars, unitVars>>

InitRerun == InitRunner(<<"focal">>, BOOLEAN, {TRUE}) /\ FetchIdle /\ UnitsIdle

NextRerun == Next \/ Rerun

SpecRerun == InitRerun /\ [][NextRerun]_vars

\* One release whose work directory may refuse removals: os.Remove and
\* os.RemoveAll report an error that processPackage and ExtractManpages drop.
InitScratch ==
    InitRunnerIn(<<"focal">>, {FALSE}, {TRUE}, BOOLEAN) /\ FetchIdle /\ UnitsIdle

SpecScratch == InitScratch /\ [][Next]_vars

(***************************************************************************)
(* Debian versions (pault.ag/go/debian/version, called by versionGreater)  *)
(* A version string is the sequence of its characters.                     *)
(***************************************************************************)

Digits == {"0", "1", "2", "3", "4", "5", "6", "7", "8", "9"}

Letters == {"a", "b", "c"}

DigitValue(c) ==
    CASE c = "0" -> 0 [] c = "1" -> 1 [] c = "2" -> 2 [] c = "3" -> 3
      [] c = "4" -> 4 [] c = "5" -> 5 [] c = "6" -> 6 [] c = "7" -> 7
      [] c = "8" -> 8 [] OTHER -> 9

\* The byte value of a character that is not a digit.
Ascii(c) ==
    CASE c = "a" -> 97 [] c = "b" -> 98 [] c = "c" -> 99
      [] c = "+" -> 43 [] c = "-" -> 45 [] c = "." -> 46
      [] c = ":" -> 58 [] OTHER -> 126

\* order of the version comparison, for the head of s (0 at the end of the
\* string): "~" sorts before everything, a digit counts as 0, a letter as
\* its byte value, anything else after all letters.
order(s) ==
    IF s = <<>> THEN 0
    ELSE LET c == Head(s) IN
         IF c \in Digits THEN 0
         ELSE IF c \in Letters THEN Ascii(c)
         ELSE IF c = "~" THEN 0 - 1
         ELSE Ascii(c) + 256

Rest(s) == IF s = <<>> THEN <<>> ELSE Tail(s)

RECURSIVE DigitRunLen(_)
\* The length of the run of digits at the head of s.
DigitRunLen(s) ==
    IF s # <<>> /\ Head(s) \in Digits THEN 1 + DigitRunLen(Tail(s)) ELSE 0

RECURSIVE NumValue(_)
\* The number written by a sequence of digits (leading zeros do not count).
NumValue(ds) ==
    IF ds = <<>> THEN 0
    ELSE 10 * NumValue(SubSeq(ds, 1, Len(ds) - 1)) + DigitValue(ds[Len(ds)])

RECURSIVE verrevcmp(_, _)
\* The comparison of two upstream versions or two revisions: alternately a
\* part without digits, compared character by character with order, and a
\* run of digits, compared as a number.
verrevcmp(a, b) ==
    IF a = <<>> /\ b = <<>> THEN 0
    ELSE IF \/ (a # <<>> /\ Head(a) \notin Digits)
            \/ (b # <<>> /\ Head(b) \notin Digits)
    THEN IF order(a) # order(b)
         THEN order(a) - order(b)
         ELSE verrevcmp(Rest(a), Rest(b))
    ELSE LET la == DigitRunLen(a)
             lb == DigitRunLen(b)
             na == NumValue(SubSeq(a, 1, la))
             nb == NumValue(SubSeq(b, 1, lb))
         IN  IF na # nb
             THEN na - nb
             ELSE verrevcmp(SubSeq(a, la + 1, Len(a)), SubSeq(b, lb + 1, Len(b)))

\* The positions of character c in s.
IndexesOf(s, c) == {i \in 1..Len(s) : s[i] = c}

Min(S) == CHOOSE x \in S : \A y \in S : x <= y

Max(S) == CHOOSE x \in S : \A y \in S : x >= y

VersionChars == Digits \cup Letters \cup {".", "+", "-", "~", ":"}

RevisionChars == Digits \cup Letters \cup {".", "+", "~"}

\* debversion.Parse: the epoch is the number before the first ":", the
\* revision what follows the last "-" of the rest, the upstream version what
\* lies between. The string is rejected when it is empty, when the epoch is
\* not a number, when the upstream version does not start with a digit, or
\* when a part holds a character it may not hold.
Parse(input) ==
    LET colons   == IndexesOf(input, ":")
        colon    == IF colons = {} THEN 0 ELSE Min(colons)
        epochStr == SubSeq(input, 1, colon - 1)
        rest     == SubSeq(input, colon + 1, Len(input))
        hyphens  == IndexesOf(rest, "-")
        hyphen   == IF hyphens = {} THEN 0 ELSE Max(hyphens)
        upstream == IF hyphen = 0 THEN rest ELSE SubSeq(rest, 1, hyphen - 1)
        revision == IF hyphen = 0 THEN <<>>
                    ELSE SubSeq(rest, hyphen + 1, Len(rest))
        bad ==
            \/ input = <<>>
            \/ colon # 0 /\ (epochStr = <<>> \/ DigitRunLen(epochStr) # Len(epochStr))
            \/ upstream # <<>> /\ Head(upstream) \notin Digits
            \/ \E i \in 1..Len(upstream) : upstream[i] \notin VersionChars
            \/ \E i \in 1..Len(revision) : revision[i] \notin RevisionChars
    IN  IF bad
        THEN [err |-> TRUE, Epoch |-> 0, Version |-> <<>>, Revision |-> <<>>]
        ELSE [err |-> FALSE,
              Epoch |-> IF colon = 0 THEN 0 ELSE NumValue(epochStr),
              Version |-> upstream, Revision |-> revision]

\* debversion.Compare: by epoch, then upstream version, then revision.
Compare(a, b) ==
    IF a.Epoch # b.Epoch THEN a.Epoch - b.Epoch
    ELSE IF verrevcmp(a.Version, b.Version) # 0
         THEN verrevcmp(a.Version, b.Version)
         ELSE verrevcmp(a.Revision, b.Revision)

\* versionGreater (fetcher.go:299-312).
versionGreater(left, right) ==
    IF right = <<>> THEN TRUE
    ELSE IF Parse(left).err THEN FALSE
    ELSE IF Parse(right).err THEN FALSE
    ELSE Compare(Parse(left), Parse(right)) > 0

(***************************************************************************)
(* Fetcher.FetchPackages (fetcher.go:49-125)                               *)
(***************************************************************************)

\* Number of (pocket, repo, arch) cells: the pockets "-updates", "-security"
\* and "" of one repo and one arch, in this order.
NumCells == 3

Cells == 1..NumCells

FetchNames == {"foo", "bar"}

\* The Version fields found in the indexes: parsable ones, two of which
\* compare equal, one that is empty and one that cannot be parsed.
Versions ==
    {<<"1", ".", "0", "-", "1">>,
     <<"2", ".", "0", "-", "1">>,
     <<"0", ":", "2", ".", "0", "-", "1">>,
     <<"1", ":", "1", ".", "0", "-", "1">>,
     <<>>,
     <<"a", "b", "c">>}

\* A stanza of the index of cell i as parsePackages returns it. The Filename
\* names the cell the .deb lies in.
Candidate(i, name, version) ==
    [Name |-> name, Version |-> version, Filename |-> <<"pool", i, name>>,
     SHA1 |-> "s1"]

\* What the archive serves for cell i: something that cannot be downloaded
\* or decompressed (err "open"), an index the scanner fails on (err
\* "parse"), or an index with at most one stanza.
CellContents(i) ==
    {[err |-> "open", candidates |-> <<>>],
     [err |-> "parse", candidates |-> <<>>],
     [err |-> "", candidates |-> <<>>]}
    \cup {[err |-> "", candidates |-> <<Candidate(i, "foo", v)>>] :
            v \in Versions}
    \cup {[err |-> "", candidates |-> <<Candidate(i, "bar", <<"1">>)>>]}

InitFetch ==
    /\ InitRunner(Releases, {FALSE}, {TRUE})
    /\ UnitsIdle
    /\ cells \in {c \in [Cells -> UNION {CellContents(i) : i \in Cells}] :
                    \A i \in Cells : c[i] \in CellContents(i)}
    /\ results = [i \in Cells |-> nil]
    /\ merged = <<>>
    /\ mergeIdx = 1
    /\ fetchPc = "fetching"
    /\ fetchOut = nil
    /\ overtaken = FALSE

\* Lines 92, 98 and 104: the fetchResult the goroutine of work item i makes
\* of what the archive serves for its cell.
fetchResult(i) ==
    IF cells[i].err # ""
    THEN [err |-> <<cells[i].err, "packages", i>>, candidates |-> <<>>]
    ELSE [err |-> nil, candidates |-> cells[i].candidates]

\* The slot a goroutine that appends to the results would write.
slot_NextFree(i, res) ==
    CHOOSE k \in DOMAIN res : res[k] = nil /\ \A j \in 1..(k - 1) : res[j] # nil

\* results[it.index]: the slot of the results the goroutine of work item i
\* writes.
slot(i, res) == i

\* Lines 86-106: the goroutine of work item i stores its result.
fetchCell(i) ==
    /\ fetchPc = "fetching"
    /\ results[i] = nil
    /\ results' = [results EXCEPT ![slot(i, results)] = fetchResult(i)]
    /\ overtaken' = (overtaken \/ \E j \in 1..(i - 1) : results[j] = nil)
    /\ UNCHANGED <<cells, merged, mergeIdx, fetchPc, fetchOut>>
    /\ UNCHANGED <<runnerVars, unitVars>>

\* Line 108: wg.Wait() returns once every goroutine has stored its result.
fetchWait ==
    /\ fetchPc = "fetching"
    /\ \A i \in Cells : results[i] # nil
    /\ fetchPc' = "merge"
    /\ UNCHANGED <<cells, results, merged, mergeIdx, fetchOut, overtaken>>
    /\ UNCHANGED <<runnerVars, unitVars>>

\* Lines 117-120: one candidate against the packages map.
mergeCandidate(pkgs, candidate) ==
    IF \/ candidate.Name \notin DOMAIN pkgs
       \/ versionGreater(candidate.Version, pkgs[candidate.Name].Version)
    THEN [n \in DOMAIN pkgs \cup {candidate.Name} |->
            IF n = candidate.Name THEN candidate ELSE pkgs[n]]
    ELSE pkgs

RECURSIVE mergeCandidates(_, _)
\* Lines 116-121: the candidates of one result, in order.
mergeCandidates(pkgs, cands) ==
    IF cands = <<>> THEN pkgs
    ELSE mergeCandidates(mergeCandidate(pkgs, Head(cands)), Tail(cands))

\* mapToSlice (lines 291-297): the packages of the map, in the order the
\* iteration over the map happens to give.
mapToSlice(pkgs) ==
    {sq \in [1..Cardinality(DOMAIN pkgs) -> {pkgs[n] : n \in DOMAIN pkgs}] :
        \A n \in DOMAIN pkgs : \E k \in DOMAIN sq : sq[k] = pkgs[n]}

\* Line 113: if r.err != nil
resultFailed_Never(r) == FALSE

resultFailed(r) == r.err # nil

\* Lines 112-122: one iteration of the merge loop over results; a result
\* with an error ends FetchPackages with that error.
fetchMerge ==
    /\ fetchPc = "merge"
    /\ mergeIdx <= NumCells
    /\ IF resultFailed(results[mergeIdx])
       THEN /\ fetchOut' = [packages |-> nil, err |-> results[mergeIdx].err]
            /\ fetchPc' = "returned"
            /\ UNCHANGED <<merged, mergeIdx>>
       ELSE /\ merged' = mergeCandidates(merged, results[mergeIdx].candidates)
            /\ mergeIdx' = mergeIdx + 1
            /\ UNCHANGED <<fetchPc, fetchOut>>
    /\ UNCHANGED <<cells, results, overtaken>>
    /\ UNCHANGED <<runnerVars, unitVars>>

\* Line 124: return mapToSlice(packages), nil.
fetchReturn ==
    /\ fetchPc = "merge"
    /\ mergeIdx > NumCells
    /\ \E sq \in mapToSlice(merged) :
        fetchOut' = [packages |-> sq, err |-> nil]
    /\ fetchPc' = "returned"
    /\ UNCHANGED <<cells, results, merged, mergeIdx, overtaken>>
    /\ UNCHANGED <<runnerVars, unitVars>>

NextFetch ==
    \/ \E i \in Cells : fetchCell(i)
    \/ fetchWait
    \/ fetchMerge
    \/ fetchReturn

SpecFetch == InitFetch /\ [][NextFetch]_vars

(***************************************************************************)
(* Fetcher.FetchDeb (fetcher.go:128-201)                                   *)
(***************************************************************************)

\* for attempt := range 3
MaxAttempts == 3

\* How one download attempt (lines 158-192) can end: the request fails in
\* transport, the server answers with a status outside 2xx, the temp file
\* cannot be created, the copy of the body fails, the rename fails, or the
\* .deb is in place. With a done context the request fails in transport.
AttemptOutcomes(done) ==
    IF done THEN {"transport"}
    ELSE {"ok", "transport", "status", "create temp", "write", "rename"}

\* The error value of a failed attempt.
AttemptError(outcome) ==
    CASE outcome = "transport"   -> <<"download deb", "transport">>
      [] outcome = "status"      -> <<"download deb", "status">>
      [] outcome = "create temp" -> <<"create temp deb file">>
      [] outcome = "write"       -> <<"write deb file">>
      [] OTHER                   -> <<"rename deb file">>

\* The loop has another iteration after the one numbered attempt.
retryAgain_Never(attempt) == FALSE

retryAgain(attempt) == attempt + 1 < MaxAttempts

notDebVars == <<fetchVars, runnerVars, parseVars, storeVars, ixVars, tocVars, smVars, rmVars, ppVars, cvVars>>

InitDeb ==
    /\ InitRunner(Releases, {FALSE}, {TRUE})
    /\ FetchIdle
    /\ ParseIdle
    /\ StoreIdle
    /\ IndexerIdle
    /\ TocIdle
    /\ SitemapIdle
    /\ MutexIdle
    /\ PathsIdle
    /\ ConverterIdle
    /\ debPc = "start"
    /\ debAttempt = 0
    /\ debLastErr = nil
    /\ debOut = nil
    /\ debRequests = <<>>
    /\ debFiles \in {{}, {"deb"}}
    /\ debCtxDone = FALSE

\* The owner of the context cancels it.
debCancel ==
    /\ debPc \notin {"returned"}
    /\ ~debCtxDone
    /\ debCtxDone' = TRUE
    /\ UNCHANGED <<debPc, debAttempt, debLastErr, debOut, debRequests, debFiles>>
    /\ UNCHANGED notDebVars

\* Lines 141-143: the work directory.
fetchDebStart ==
    /\ debPc = "start"
    /\ \E mkdirOk \in BOOLEAN :
        IF mkdirOk
        THEN /\ debPc' = "request"
             /\ UNCHANGED debOut
        ELSE /\ debPc' = "returned"
             /\ debOut' = [path |-> "", err |-> <<"create work dir">>]
    /\ UNCHANGED <<debAttempt, debLastErr, debRequests, debFiles, debCtxDone>>
    /\ UNCHANGED notDebVars

\* Lines 147-156: before a retry, the select between ctx.Done() and the
\* timer. When the context is done and the timer has fired as well, either
\* case may be taken.
fetchDebBackoff ==
    /\ debPc = "backoff"
    /\ \E case \in (IF debCtxDone THEN {"done", "timer"} ELSE {"timer"}) :
        IF case = "done"
        THEN /\ debPc' = "returned"
             /\ debOut' = [path |-> "", err |-> <<"context canceled">>]
        ELSE /\ debPc' = "request"
             /\ UNCHANGED debOut
    /\ UNCHANGED <<debAttempt, debLastErr, debRequests, debFiles, debCtxDone>>
    /\ UNCHANGED notDebVars

\* Lines 158-199: one attempt and what the loop does with its error. Every
\* failing path of the attempt removes the temp file it created.
fetchDebAttempt ==
    /\ debPc = "request"
    /\ \E outcome \in AttemptOutcomes(debCtxDone) :
        /\ debRequests' = Append(debRequests, outcome)
        /\ debLastErr' = IF outcome = "ok" THEN nil ELSE AttemptError(outcome)
        /\ IF outcome = "ok"
           THEN /\ debFiles' = debFiles \cup {"deb"}
                /\ debOut' = [path |-> "deb", err |-> nil]
                /\ debPc' = "returned"
                /\ UNCHANGED debAttempt
           ELSE /\ UNCHANGED debFiles
                /\ IF debCtxDone \/ ~retryAgain(debAttempt)
                   THEN /\ debOut' = [path |-> "", err |-> AttemptError(outcome)]
                        /\ debPc' = "returned"
                        /\ UNCHANGED debAttempt
                   ELSE /\ debAttempt' = debAttempt + 1
                        /\ debPc' = "backoff"
                        /\ UNCHANGED debOut
    /\ UNCHANGED debCtxDone
    /\ UNCHANGED notDebVars

NextDeb ==
    \/ debCancel
    \/ fetchDebStart
    \/ fetchDebBackoff
    \/ fetchDebAttempt

SpecDeb == InitDeb /\ [][NextDeb]_vars

(***************************************************************************)
(* parsePackages (fetcher.go:245-289)                                      *)
(* A line of the index is the pair <<key, value>> that SplitN(line, ": ",  *)
(* 2) yields, <<>> for the empty line, or <<"junk">> for a line without    *)
(* ": ".                                                                   *)
(***************************************************************************)

\* Number of stanzas in an index file.
MaxStanzas == 3

\* The four fields parsePackages retains.
Fields == {"Package", "Version", "Filename", "SHA1"}

FieldOrder == <<"Package", "Version", "Filename", "SHA1">>

\* The lines of stanza k of an index whose stanza holds the fields in
\* present: a continuation line, the fields with values that name the
\* stanza, and a field that is not retained.
StanzaLines(k, present) ==
    LET line(i) == <<FieldOrder[i], <<FieldOrder[i], k>>>>
        keep == SelectSeq([i \in 1..Len(FieldOrder) |-> i],
                          LAMBDA i : FieldOrder[i] \in present)
    IN  <<<<"junk">>>> \o [j \in 1..Len(keep) |-> line(keep[j])]
        \o <<<<"Description", <<"Description", k>>>>>>

RECURSIVE IndexLines(_, _)
\* The lines of an index: the stanzas from the k-th on, each followed by an
\* empty line except the last.
IndexLines(stanzas, k) ==
    IF k > Len(stanzas) THEN <<>>
    ELSE StanzaLines(k, stanzas[k])
         \o (IF k < Len(stanzas) THEN <<<<>>>> ELSE <<>>)
         \o IndexLines(stanzas, k + 1)

NoFields == [f \in Fields |-> ""]

\* flush (lines 252-264): the stanza read so far is appended when Package,
\* Filename and SHA1 are not empty.
flush(fields, res) ==
    IF fields["Package"] = "" \/ fields["Filename"] = "" \/ fields["SHA1"] = ""
    THEN res
    ELSE Append(res, [Name |-> fields["Package"], Version |-> fields["Version"],
                      Filename |-> fields["Filename"], SHA1 |-> fields["SHA1"]])

RECURSIVE scan(_, _, _)
\* Lines 266-282: the loop over the lines, and the flush after it.
scan(lines, fields, res) ==
    IF lines = <<>> THEN flush(fields, res)
    ELSE LET line == Head(lines) IN
         IF line = <<>>
         THEN scan(Tail(lines), NoFields, flush(fields, res))
         ELSE IF Len(line) # 2
         THEN scan(Tail(lines), fields, res)
         ELSE IF line[1] \in Fields
         THEN scan(Tail(lines), [fields EXCEPT ![line[1]] = line[2]], res)
         ELSE scan(Tail(lines), fields, res)

\* parsePackages: the stanzas found, or the scanner's error (a line longer
\* than the buffer).
parsePackages(lines, scanErr) ==
    IF scanErr THEN [packages |-> nil, err |-> <<"scan packages">>]
    ELSE [packages |-> scan(lines, NoFields, <<>>), err |-> nil]

notParseVars == <<fetchVars, runnerVars, debVars, storeVars, ixVars, tocVars, smVars, rmVars, ppVars, cvVars>>

InitParse ==
    /\ InitRunner(Releases, {FALSE}, {TRUE})
    /\ FetchIdle
    /\ DebIdle
    /\ StoreIdle
    /\ IndexerIdle
    /\ TocIdle
    /\ SitemapIdle
    /\ MutexIdle
    /\ PathsIdle
    /\ ConverterIdle
    /\ parseStanzas \in UNION {[1..n -> SUBSET Fields] : n \in 0..MaxStanzas}
    /\ parseLines = IndexLines(parseStanzas, 1)
    /\ parsePc = "start"
    /\ parseOut = nil

parsePackagesRun ==
    /\ parsePc = "start"
    /\ \E scanErr \in BOOLEAN :
        parseOut' = parsePackages(parseLines, scanErr)
    /\ parsePc' = "returned"
    /\ UNCHANGED <<parseStanzas, parseLines>>
    /\ UNCHANGED notParseVars

NextParse == parsePackagesRun

SpecParse == InitParse /\ [][NextParse]_vars

(***************************************************************************)
(* FSStorage.writeFileAbsolute (storage_fs.go:53-66), step by step, with a *)
(* concurrent reader of the destination path                               *)
(***************************************************************************)

\* The destination of the write and another path of the same directory.
Dest == "a.html"

StorePaths == {"a.html", "b.html"}

Absent == [kind |-> "absent", data |-> "", to |-> ""]

File(data) == [kind |-> "file", data |-> data, to |-> ""]

Link(to) == [kind |-> "link", data |-> "", to |-> to]

\* What a path can hold before the write: nothing, a complete file of an
\* earlier ingest, or a symlink to a path of the directory (dangling when
\* that path holds nothing, circular when the links lead back).
OldEntries(p) ==
    {Absent, File(IF p = Dest THEN "old" ELSE "other")}
    \cup {Link(q) : q \in StorePaths}

RECURSIVE Follow(_, _, _)
\* Path resolution as open(2) does it: follow symlinks, give up with ELOOP
\* after too many of them.
Follow(fs, p, hops) ==
    IF fs[p].kind # "link" THEN p
    ELSE IF hops = 0 THEN "ELOOP"
    ELSE Follow(fs, fs[p].to, hops - 1)

Resolve(fs, p) == Follow(fs, p, Cardinality(StorePaths))

\* os.ReadFile(p) by a reader: the content, or that there is nothing to
\* read.
ReadFile(fs, p) ==
    LET r == Resolve(fs, p) IN
    IF r = "ELOOP" THEN "error: too many links"
    ELSE IF fs[r].kind = "absent" THEN "error: not exist"
    ELSE IF fs[r].data = "" THEN "partial"
    ELSE fs[r].data

\* os.Remove(fullPath) that succeeds (line 59): the entry itself is
\* unlinked, a symlink is not followed.
removeExisting_Skip(fs, p) == fs

removeExisting(fs, p) == [fs EXCEPT ![p] = Absent]

notStoreVars == <<fetchVars, runnerVars, debVars, parseVars, ixVars, tocVars, smVars, rmVars, ppVars, cvVars>>

InitStorage ==
    /\ InitRunner(Releases, {FALSE}, {TRUE})
    /\ FetchIdle
    /\ DebIdle
    /\ ParseIdle
    /\ IndexerIdle
    /\ TocIdle
    /\ SitemapIdle
    /\ MutexIdle
    /\ PathsIdle
    /\ ConverterIdle
    /\ storeFs \in {f \in [StorePaths -> UNION {OldEntries(p) : p \in StorePaths}] :
                        \A p \in StorePaths : f[p] \in OldEntries(p)}
    /\ storeFs0 = storeFs
    /\ storeOp \in {"WriteHTML", "WriteGzip", "WriteCache"}
    /\ storePc = "mkdir"
    /\ storeFd = ""
    /\ storeOut = nil
    /\ storeSeen = {}

storeReturn(err) ==
    /\ storePc' = "returned"
    /\ storeOut' = err

\* Lines 54-56: os.MkdirAll of the parent directory.
storeMkdirAll ==
    /\ storePc = "mkdir"
    /\ \E ok \in BOOLEAN :
        IF ok THEN storePc' = "remove" /\ UNCHANGED storeOut
        ELSE storeReturn(<<"mkdir">>)
    /\ UNCHANGED <<storeFs, storeFs0, storeOp, storeFd, storeSeen>>
    /\ UNCHANGED notStoreVars

\* Lines 59-61: os.Remove; "not exist" is not an error.
storeRemove ==
    /\ storePc = "remove"
    /\ IF storeFs[Dest].kind = "absent"
       THEN /\ storePc' = "open"
            /\ UNCHANGED <<storeFs, storeOut>>
       ELSE \E ok \in BOOLEAN :
            IF ok
            THEN /\ storeFs' = removeExisting(storeFs, Dest)
                 /\ storePc' = "open"
                 /\ UNCHANGED storeOut
            ELSE /\ storeReturn(<<"remove existing">>)
                 /\ UNCHANGED storeFs
    /\ UNCHANGED <<storeFs0, storeOp, storeFd, storeSeen>>
    /\ UNCHANGED notStoreVars

\* Line 62, first half: os.WriteFile opens the path with O_CREATE|O_TRUNC.
\* The open follows symlinks; it creates or truncates what they lead to.
storeOpen ==
    /\ storePc = "open"
    /\ LET r == Resolve(storeFs, Dest) IN
       \E ok \in (IF r = "ELOOP" THEN {FALSE} ELSE BOOLEAN) :
        IF ok
        THEN /\ storeFs' = [storeFs EXCEPT ![r] = File("")]
             /\ storeFd' = r
             /\ storePc' = "write"
             /\ UNCHANGED storeOut
        ELSE /\ storeReturn(<<"write file">>)
             /\ UNCHANGED <<storeFs, storeFd>>
    /\ UNCHANGED <<storeFs0, storeOp, storeSeen>>
    /\ UNCHANGED notStoreVars

\* Line 62, second half: the content is written and the file closed; a
\* failing write leaves the file with part of the content.
storeWrite ==
    /\ storePc = "write"
    /\ \E ok \in BOOLEAN :
        IF ok
        THEN /\ storeFs' = [storeFs EXCEPT ![storeFd] = File("new")]
             /\ storeReturn(nil)
        ELSE /\ storeReturn(<<"write file">>)
             /\ UNCHANGED storeFs
    /\ UNCHANGED <<storeFs0, storeOp, storeFd, storeSeen>>
    /\ UNCHANGED notStoreVars

\* Another process (CheckCache of a second ingest, the web server) reads the
\* destination path while the write is under way or after it.
storeRead ==
    /\ storePc # "idle"
    /\ ReadFile(storeFs, Dest) \notin storeSeen
    /\ storeSeen' = storeSeen \cup {ReadFile(storeFs, Dest)}
    /\ UNCHANGED <<storeFs, storeFs0, storeOp, storePc, storeFd, storeOut>>
    /\ UNCHANGED notStoreVars

NextStorage ==
    \/ storeMkdirAll
    \/ storeRemove
    \/ storeOpen
    \/ storeWrite
    \/ storeRead

SpecStorage == InitStorage /\ [][NextStorage]_vars

(***************************************************************************)
(* SQLiteIndexer (sqlite_indexer.go:12-95), step by step, called by        *)
(* several workers and closed by one more goroutine.                       *)
(* sqlite.batches is the history of the transactions begun on the database;    *)
(* sqlite.tx is the index of the one s.tx points to, 0 for a nil s.tx.         *)
(***************************************************************************)

\* sqlite_indexer.go line 10 has 500; the model flushes after this many rows.
batchSize == 2

NumCallers == 2

MaxCalls == 2

Callers == 1..NumCallers

\* The goroutine that calls Close.
Closer == 0

Goroutines == Callers \cup {Closer}

\* The document of the n-th call of worker c.
Doc(c, n) == <<c, n>>

\* NewSQLiteIndexer, lines 21-43: an open database, no transaction.
NewIndexer ==
    [mu |-> FALSE, tx |-> 0, count |-> 0, dbClosed |-> FALSE,
     batches |-> <<>>, fault |-> FALSE]

\* s.mu.Lock() lets a goroutine in when the mutex is free.
tryLock_Always(mu) == TRUE

tryLock(mu) == ~mu

\* flush, lines 72-84: the indexer after it and the error it returns.
indexerFlush(s, commitOk) ==
    IF s.tx = 0
    THEN [s |-> s, err |-> nil]
    ELSE [s |-> [s EXCEPT !.batches[s.tx].state =
                              IF commitOk /\ @ = "open" THEN "committed"
                              ELSE IF @ = "open" THEN "failed" ELSE @,
                          !.tx = 0,
                          !.count = 0],
          err |-> IF commitOk /\ s.batches[s.tx].state = "open"
                  THEN nil ELSE <<"commit batch">>]

notIxVars == <<fetchVars, runnerVars, debVars, parseVars, storeVars, tocVars, smVars, rmVars, ppVars, cvVars>>

InitIndexer ==
    /\ sqlite = NewIndexer
    /\ ixPc = [g \in Goroutines |-> "idle"]
    /\ ixCalls = [c \in Callers |-> 0]
    /\ ixRes = [g \in Goroutines |-> nil]
    /\ ixOk = {}
    /\ InitRunner(Releases, {FALSE}, {TRUE})
    /\ FetchIdle
    /\ DebIdle
    /\ ParseIdle
    /\ StoreIdle
    /\ TocIdle
    /\ SitemapIdle
    /\ MutexIdle
    /\ PathsIdle
    /\ ConverterIdle

\* The call returns err: the deferred s.mu.Unlock() is all that is left.
ixReturn(g, err) ==
    /\ ixPc' = [ixPc EXCEPT ![g] = "unlock"]
    /\ ixRes' = [ixRes EXCEPT ![g] = err]

\* IndexManpage line 46: s.mu.Lock().
indexLock(c) ==
    /\ ixPc[c] = "idle"
    /\ ixCalls[c] < MaxCalls
    /\ tryLock(sqlite.mu)
    /\ sqlite' = [sqlite EXCEPT !.mu = TRUE]
    /\ ixCalls' = [ixCalls EXCEPT ![c] = @ + 1]
    /\ ixPc' = [ixPc EXCEPT ![c] = "begin"]
    /\ UNCHANGED <<ixRes, ixOk>>
    /\ UNCHANGED notIxVars

\* Lines 49-56: begin a transaction when s.tx is nil. BeginTx fails on a
\* closed database and may fail on an open one.
indexBegin(c) ==
    /\ ixPc[c] = "begin"
    /\ IF sqlite.tx # 0
       THEN /\ ixPc' = [ixPc EXCEPT ![c] = "exec"]
            /\ UNCHANGED <<sqlite, ixRes>>
       ELSE \E ok \in (IF sqlite.dbClosed THEN {FALSE} ELSE BOOLEAN) :
            IF ok
            THEN /\ sqlite' = [sqlite EXCEPT
                       !.batches = Append(@, [rows |-> {}, state |-> "open"]),
                       !.tx = Len(sqlite.batches) + 1]
                 /\ ixPc' = [ixPc EXCEPT ![c] = "exec"]
                 /\ UNCHANGED ixRes
            ELSE /\ ixReturn(c, <<"begin tx">>)
                 /\ UNCHANGED sqlite
    /\ UNCHANGED <<ixCalls, ixOk>>
    /\ UNCHANGED notIxVars

\* Lines 58-61: s.txStmt.ExecContext. The statement is the one s.txStmt holds
\* when the insert runs; a nil or finished one cannot take the row.
indexExec(c) ==
    /\ ixPc[c] = "exec"
    /\ IF sqlite.tx = 0 \/ sqlite.batches[sqlite.tx].state # "open"
       THEN /\ sqlite' = [sqlite EXCEPT !.fault = TRUE]
            /\ ixReturn(c, <<"index manpage">>)
       ELSE \E ok \in BOOLEAN :
            IF ok
            THEN /\ sqlite' = [sqlite EXCEPT !.batches[sqlite.tx].rows =
                                         @ \cup {Doc(c, ixCalls[c])}]
                 /\ ixPc' = [ixPc EXCEPT ![c] = "count"]
                 /\ UNCHANGED ixRes
            ELSE /\ ixReturn(c, <<"index manpage">>)
                 /\ UNCHANGED sqlite
    /\ UNCHANGED <<ixCalls, ixOk>>
    /\ UNCHANGED notIxVars

\* Line 64: the batch is full.
batchFull_Never(count) == FALSE

batchFull(count) == count >= batchSize

\* Lines 63-64: s.count++ and the test against batchSize.
indexCount(c) ==
    /\ ixPc[c] = "count"
    /\ sqlite' = [sqlite EXCEPT !.count = @ + 1]
    /\ IF batchFull(sqlite.count + 1)
       THEN /\ ixPc' = [ixPc EXCEPT ![c] = "flush"]
            /\ UNCHANGED ixRes
       ELSE ixReturn(c, nil)
    /\ UNCHANGED <<ixCalls, ixOk>>
    /\ UNCHANGED notIxVars

\* Lines 65-69: the flush of a full batch.
indexFlush(c) ==
    /\ ixPc[c] = "flush"
    /\ \E commitOk \in BOOLEAN :
        LET f == indexerFlush(sqlite, commitOk) IN
        /\ sqlite' = f.s
        /\ ixReturn(c, f.err)
    /\ UNCHANGED <<ixCalls, ixOk>>
    /\ UNCHANGED notIxVars

\* The deferred s.mu.Unlock() of line 47 and the return to the caller.
indexUnlock(c) ==
    /\ ixPc[c] = "unlock"
    /\ sqlite' = [sqlite EXCEPT !.mu = FALSE]
    /\ ixOk' = IF ixRes[c] = nil THEN ixOk \cup {Doc(c, ixCalls[c])} ELSE ixOk
    /\ ixPc' = [ixPc EXCEPT ![c] = "idle"]
    /\ ixRes' = [ixRes EXCEPT ![c] = nil]
    /\ UNCHANGED ixCalls
    /\ UNCHANGED notIxVars

\* Close line 87: s.mu.Lock().
closeLock ==
    /\ ixPc[Closer] = "idle"
    /\ tryLock(sqlite.mu)
    /\ sqlite' = [sqlite EXCEPT !.mu = TRUE]
    /\ ixPc' = [ixPc EXCEPT ![Closer] = "flush"]
    /\ UNCHANGED <<ixCalls, ixRes, ixOk>>
    /\ UNCHANGED notIxVars

\* Lines 90-92: flush; its error is returned at once.
closeFlush ==
    /\ ixPc[Closer] = "flush"
    /\ \E commitOk \in BOOLEAN :
        LET f == indexerFlush(sqlite, commitOk) IN
        /\ sqlite' = f.s
        /\ IF f.err # nil
           THEN ixReturn(Closer, f.err)
           ELSE /\ ixPc' = [ixPc EXCEPT ![Closer] = "closeDb"]
                /\ UNCHANGED ixRes
    /\ UNCHANGED <<ixCalls, ixOk>>
    /\ UNCHANGED notIxVars

\* Lines 93-94: close the prepared statement and the database.
closeDb ==
    /\ ixPc[Closer] = "closeDb"
    /\ sqlite' = [sqlite EXCEPT !.dbClosed = TRUE]
    /\ \E err \in {nil, <<"close">>} : ixReturn(Closer, err)
    /\ UNCHANGED <<ixCalls, ixOk>>
    /\ UNCHANGED notIxVars

\* The deferred s.mu.Unlock() of line 88; Close has returned.
closeUnlock ==
    /\ ixPc[Closer] = "unlock"
    /\ sqlite' = [sqlite EXCEPT !.mu = FALSE]
    /\ ixPc' = [ixPc EXCEPT ![Closer] = "closed"]
    /\ UNCHANGED <<ixCalls, ixRes, ixOk>>
    /\ UNCHANGED notIxVars

NextIndexer ==
    \/ \E c \in Callers :
        \/ indexLock(c)
        \/ indexBegin(c)
        \/ indexExec(c)
        \/ indexCount(c)
        \/ indexFlush(c)
        \/ indexUnlock(c)
    \/ closeLock
    \/ closeFlush
    \/ closeDb
    \/ closeUnlock

SpecIndexer == InitIndexer /\ [][NextIndexer]_vars

(***************************************************************************)
(* bGenerateTOC (toc.go:28-97) and slugify (toc.go:18-26).                 *)
(* A heading is the text left of its inner HTML once the tags are stripped *)
(* and the whitespace collapsed (line 54); a text and a slug are sequences *)
(* of characters.                                                          *)
(***************************************************************************)

MaxHeadings == 3

LowerAlnum == {"x", "h", "e", "a", "d", "i", "n", "g",
               "0", "1", "2", "3", "4", "5", "6", "7", "8", "9"}

\* strings.ToLower on one character.
ToLower(c) == IF c = "X" THEN "x" ELSE c

\* nonAlphanumeric.ReplaceAllString(slug, "-"): every run of characters
\* outside [a-z0-9] becomes one "-".
RECURSIVE ReplaceRuns(_, _)
ReplaceRuns(t, inRun) ==
    IF t = <<>> THEN <<>>
    ELSE IF Head(t) \in LowerAlnum
         THEN <<Head(t)>> \o ReplaceRuns(Tail(t), FALSE)
         ELSE IF inRun THEN ReplaceRuns(Tail(t), TRUE)
              ELSE <<"-">> \o ReplaceRuns(Tail(t), TRUE)

\* strings.Trim(slug, "-").
RECURSIVE TrimLeft(_)
TrimLeft(t) == IF t # <<>> /\ Head(t) = "-" THEN TrimLeft(Tail(t)) ELSE t

RECURSIVE TrimRight(_)
TrimRight(t) ==
    IF t # <<>> /\ t[Len(t)] = "-"
    THEN TrimRight(SubSeq(t, 1, Len(t) - 1))
    ELSE t

slugify(text) ==
    TrimRight(TrimLeft(ReplaceRuns([k \in DOMAIN text |-> ToLower(text[k])],
                                   FALSE)))

\* The decimal digits of n, as %d prints them.
RECURSIVE Itoa(_)
Itoa(n) ==
    LET d == <<"0", "1", "2", "3", "4", "5", "6", "7", "8", "9">>[(n % 10) + 1]
    IN  IF n < 10 THEN <<d>> ELSE Itoa(n \div 10) \o <<d>>

\* Lines 61-68: the slug of the heading at index i, given the slugs seen.
\* The suffixed slug is not looked up in seen again.
headingSlug(text, i, seen) ==
    LET s0 == slugify(text)
        s1 == IF s0 = <<>>
              THEN <<"h", "e", "a", "d", "i", "n", "g", "-">> \o Itoa(i)
              ELSE s0
    IN  IF s1 \in seen THEN s1 \o <<"-">> \o Itoa(i) ELSE s1

\* The heading texts the model draws from: plain, upper case, with a number
\* after a space or a dash, punctuation only, empty, and the text that
\* slugifies to the fallback of index 1.
HeadingTexts ==
    {<<"x">>, <<"X">>, <<"x", " ", "2">>, <<"x", "-", "1">>, <<"!">>, <<>>,
     <<"h", "e", "a", "d", "i", "n", "g", " ", "1">>}

notTocVars ==
    <<fetchVars, runnerVars, debVars, parseVars, storeVars, ixVars,
      smVars, rmVars, ppVars, cvVars>>

InitToc ==
    /\ tocHeadings \in UNION {[1..n -> HeadingTexts] : n \in 0..MaxHeadings}
    /\ tocI = 0
    /\ tocSeen = {}
    /\ tocBody = <<>>
    /\ tocLinks = <<>>
    /\ tocPc = "loop"
    /\ InitRunner(Releases, {FALSE}, {TRUE})
    /\ FetchIdle
    /\ DebIdle
    /\ ParseIdle
    /\ StoreIdle
    /\ IndexerIdle
    /\ SitemapIdle
    /\ MutexIdle
    /\ PathsIdle
    /\ ConverterIdle

\* Lines 45-91: one iteration of the loop over the matches. A heading with
\* an empty text is copied as it is and gets no entry.
tocHeading ==
    /\ tocPc = "loop"
    /\ tocI < Len(tocHeadings)
    /\ LET text == tocHeadings[tocI + 1]
           slug == headingSlug(text, tocI, tocSeen)
       IN  IF text = <<>>
           THEN UNCHANGED <<tocSeen, tocBody>>
           ELSE /\ tocSeen' = tocSeen \cup {slug}
                /\ tocBody' = Append(tocBody, slug)
    /\ tocI' = tocI + 1
    /\ UNCHANGED <<tocHeadings, tocLinks, tocPc>>
    /\ UNCHANGED notTocVars

\* Lines 94-105: the TOC items, one per entry, and the return. Without any
\* match the function returns at line 31 with an empty TOC.
tocReturn ==
    /\ tocPc = "loop"
    /\ tocI = Len(tocHeadings)
    /\ tocLinks' = tocBody
    /\ tocPc' = "done"
    /\ UNCHANGED <<tocHeadings, tocI, tocSeen, tocBody>>
    /\ UNCHANGED notTocVars

NextToc ==
    \/ tocHeading
    \/ tocReturn

SpecToc == InitToc /\ [][NextToc]_vars

(***************************************************************************)
(* SitemapGenerator.Generate (sitemap.go:48-116), generateSection          *)
(* (121-143), generateManSection (145-211) and splitURLs (239-253).        *)
(* A release directory holds the man section man1 and the language         *)
(* directory de, which holds its own man1. A sitemap file is named by the  *)
(* tuple <<release, lang, section, chunk>>, chunk 0 for a name without     *)
(* suffix.                                                                 *)
(***************************************************************************)

\* sitemap.go line 14 has 50000; the model splits after this many URLs.
maxSitemapURLs == 2

\* The most .html files a section directory holds.
MaxURLs == 3

\* A man section directory: unreadable, or readable with n .html files.
SectionDirs ==
    {[readable |-> FALSE, n |-> 0]} \cup
    {[readable |-> TRUE, n |-> n] : n \in 0..MaxURLs}

NoSection == [readable |-> TRUE, n |-> 0]

\* A language directory: unreadable, or readable with its man1.
LangDirs ==
    {[readable |-> FALSE, man1 |-> NoSection]} \cup
    {[readable |-> TRUE, man1 |-> d] : d \in SectionDirs}

\* A release directory: missing, unreadable, or readable with man1 and de.
ReleaseDirs ==
    {[dir |-> st, man1 |-> NoSection,
      de |-> [readable |-> TRUE, man1 |-> NoSection]] :
          st \in {"missing", "unreadable"}} \cup
    {[dir |-> "ok", man1 |-> d, de |-> l] : d \in SectionDirs, l \in LangDirs}

StaticFile == <<"static", "", "", 0>>

\* splitURLs, lines 239-253: the number of chunks n URLs are split into.
splitURLs(n, maxPerFile) ==
    IF n <= maxPerFile THEN 1 ELSE (n + maxPerFile - 1) \div maxPerFile

\* Lines 186-196: the file name of chunk i (from 1) of a section.
ChunkFile(release, lang, section, chunks, i) ==
    <<release, lang, section, IF chunks > 1 THEN i ELSE 0>>

\* generateManSection, lines 145-211: wr is the number of chunk files that
\* are written before a write fails. The references gathered so far are
\* dropped on an error (line 199), the files written stay.
generateManSection(release, section, d, lang, wr, done) ==
    LET chunks == splitURLs(d.n, maxSitemapURLs)
        names(k) == {ChunkFile(release, lang, section, chunks, i) : i \in 1..k}
    IN  IF ~d.readable
        THEN [refs |-> {}, files |-> {}, err |-> "read dir"]
        ELSE IF d.n > 0 /\ done
        THEN [refs |-> {}, files |-> {}, err |-> "context canceled"]
        ELSE IF d.n = 0
        THEN [refs |-> {}, files |-> {}, err |-> ""]
        ELSE IF wr < chunks
        THEN [refs |-> {}, files |-> names(wr), err |-> "create"]
        ELSE [refs |-> names(chunks), files |-> names(chunks), err |-> ""]

\* generateSection, lines 121-143: a man section directly, or the man
\* sections of a language directory, whose errors are logged and skipped.
generateSection(release, dirName, tree, wr, done) ==
    IF dirName = "man1"
    THEN generateManSection(release, "man1", tree.man1, "", wr, done)
             @@ [log |-> {}]
    ELSE IF ~tree.de.readable
    THEN [refs |-> {}, files |-> {}, err |-> "read dir", log |-> {}]
    ELSE LET r == generateManSection(release, "man1", tree.de.man1, dirName,
                                     wr, done)
         IN  [refs |-> r.refs, files |-> r.files, err |-> "",
              log |-> IF r.err # "" THEN {<<release, dirName, "man1">>}
                      ELSE {}]

notSmVars ==
    <<fetchVars, runnerVars, debVars, parseVars, storeVars, ixVars,
      tocVars, rmVars, ppVars, cvVars>>

InitSitemap ==
    /\ smTree \in [1..Len(Releases) -> ReleaseDirs]
    /\ smCtxDone = FALSE
    /\ smPc = "static"
    /\ smRel = 1
    /\ smTodo = <<>>
    /\ smRefs = {}
    /\ smFiles = {}
    /\ smIndex = [written |-> FALSE, refs |-> {}]
    /\ smLog = {}
    /\ smErr = ""
    /\ InitRunner(Releases, {FALSE}, {TRUE})
    /\ FetchIdle
    /\ DebIdle
    /\ ParseIdle
    /\ StoreIdle
    /\ IndexerIdle
    /\ TocIdle
    /\ MutexIdle
    /\ PathsIdle
    /\ ConverterIdle

\* Generate returns err.
smReturn(err) ==
    /\ smPc' = "done"
    /\ smErr' = err

\* The caller cancels the context while Generate runs.
smCancel ==
    /\ smPc \notin {"idle", "done"}
    /\ ~smCtxDone
    /\ smCtxDone' = TRUE
    /\ UNCHANGED <<smTree, smPc, smRel, smTodo, smRefs, smFiles, smIndex,
                   smLog, smErr>>
    /\ UNCHANGED notSmVars

\* Lines 49-76: the sitemaps directory and the static sitemap.
smStatic ==
    /\ smPc = "static"
    /\ \E out \in {"", "create sitemaps dir", "write static sitemap"} :
        IF out = ""
        THEN /\ smFiles' = smFiles \cup {StaticFile}
             /\ smRefs' = smRefs \cup {StaticFile}
             /\ smPc' = "release"
             /\ UNCHANGED smErr
        ELSE /\ smReturn(out)
             /\ UNCHANGED <<smFiles, smRefs>>
    /\ UNCHANGED <<smTree, smCtxDone, smRel, smTodo, smIndex, smLog>>
    /\ UNCHANGED notSmVars

\* Lines 79-90: the head of the loop over the releases.
smRelease ==
    /\ smPc = "release"
    /\ IF smRel > Len(Releases)
       THEN /\ smPc' = "index"
            /\ UNCHANGED <<smRel, smTodo, smErr>>
       ELSE IF smCtxDone
       THEN /\ smReturn("context canceled")
            /\ UNCHANGED <<smRel, smTodo>>
       ELSE IF smTree[smRel].dir = "missing"
       THEN /\ smRel' = smRel + 1
            /\ UNCHANGED <<smPc, smTodo, smErr>>
       ELSE IF smTree[smRel].dir = "unreadable"
       THEN /\ smReturn("read release dir")
            /\ UNCHANGED <<smRel, smTodo>>
       ELSE /\ smTodo' = <<"de", "man1">>
            /\ smPc' = "section"
            /\ UNCHANGED <<smRel, smErr>>
    /\ UNCHANGED <<smTree, smCtxDone, smRefs, smFiles, smIndex, smLog>>
    /\ UNCHANGED notSmVars

\* Lines 92-105: one entry of the release directory.
smSection ==
    /\ smPc = "section"
    /\ IF smTodo = <<>>
       THEN /\ smRel' = smRel + 1
            /\ smPc' = "release"
            /\ UNCHANGED <<smTodo, smRefs, smFiles, smLog>>
       ELSE \E wr \in 0..splitURLs(MaxURLs, maxSitemapURLs) :
            LET r == generateSection(Releases[smRel], Head(smTodo),
                                     smTree[smRel], wr, smCtxDone)
            IN  /\ smFiles' = smFiles \cup r.files
                /\ smRefs' = IF r.err = "" THEN smRefs \cup r.refs ELSE smRefs
                /\ smLog' = smLog \cup r.log \cup
                            (IF r.err = "" THEN {}
                             ELSE {<<Releases[smRel], Head(smTodo), "">>})
                /\ smTodo' = Tail(smTodo)
                /\ UNCHANGED <<smRel, smPc>>
    /\ UNCHANGED <<smTree, smCtxDone, smIndex, smErr>>
    /\ UNCHANGED notSmVars

\* Lines 108-115: the sitemap index.
smWriteIndex ==
    /\ smPc = "index"
    /\ \E ok \in BOOLEAN :
        IF ok
        THEN /\ smIndex' = [written |-> TRUE, refs |-> smRefs]
             /\ smReturn("")
        ELSE /\ smReturn("create")
             /\ UNCHANGED smIndex
    /\ UNCHANGED <<smTree, smCtxDone, smRel, smTodo, smRefs, smFiles, smLog>>
    /\ UNCHANGED notSmVars

NextSitemap ==
    \/ smCancel
    \/ smStatic
    \/ smRelease
    \/ smSection
    \/ smWriteIndex

SpecSitemap == InitSitemap /\ [][NextSitemap]_vars

(***************************************************************************)
(* The mutex r.mu of the Runner (part_002:218-220) along Run (223-275),    *)
(* runRelease (277-330), processPackage (332-374) and recordFailure        *)
(* (464-484). A position of a goroutine is the statement it is at; at an   *)
(* I/O position it is inside a file operation, a network request or a      *)
(* subprocess.                                                             *)
(***************************************************************************)

\* The most packages a release has.
MaxPkgs == 2

RmWorkers == 1..Len(Releases)

\* Run itself, as opposed to the goroutines it starts.
RunGoroutine == Len(Releases) + 1

\* The positions inside a file operation, a network request or a subprocess:
\* os.MkdirAll (280), the creation of the failure log (296-297),
\* FetchPackages (304), CheckCache (338), FetchDeb to WriteCache (349-370),
\* the append to the failure log (474-478) and the logger (326).
IoPositions ==
    {"mkdir", "createLog", "fetchPackages", "checkCache", "process",
     "appendLog", "logDone"}

\* The release goroutines that have started and not returned.
Running == {w \in RmWorkers : rmPc[w] \notin {"idle", "exited"}}

\* r.mu.Unlock() at the end of the critical section at position cs.
unlock_LateInRecordFailure(mu, cs) == IF cs = "csFail" THEN mu ELSE 0

unlock(mu, cs) == 0

\* An access of goroutine g to r.statuses or r.releaseFailures.
access(g) == rmRace' = (rmRace \/ (rmMu # g /\ Running # {}))

notRmVars ==
    <<fetchVars, runnerVars, debVars, parseVars, storeVars, ixVars,
      tocVars, smVars, ppVars, cvVars>>

InitMutex ==
    /\ rmMu = 0
    /\ rmPc = [w \in RmWorkers |-> "idle"]
    /\ rmRunPc = "init"
    /\ rmLeft = [w \in RmWorkers |-> 0]
    /\ rmAfter = [w \in RmWorkers |-> ""]
    /\ rmStat = <<>>
    /\ rmFail = <<>>
    /\ rmRace = FALSE
    /\ InitRunner(Releases, BOOLEAN, {TRUE})
    /\ FetchIdle
    /\ DebIdle
    /\ ParseIdle
    /\ StoreIdle
    /\ IndexerIdle
    /\ TocIdle
    /\ SitemapIdle
    /\ PathsIdle
    /\ ConverterIdle

\* Run lines 228-232: the records are made before any goroutine starts.
rmRunInit ==
    /\ rmRunPc = "init"
    /\ access(RunGoroutine)
    /\ rmStat' = [w \in RmWorkers |->
                     [Stage |-> "waiting", Total |-> 0, Done |-> 0,
                      Skipped |-> 0, Errors |-> 0, FailuresPath |-> FALSE]]
    /\ rmFail' = [w \in RmWorkers |-> 0]
    /\ rmRunPc' = "spawn"
    /\ UNCHANGED <<rmMu, rmPc, rmLeft, rmAfter>>
    /\ UNCHANGED notRmVars

\* Lines 238-249: go func(idx, rel), one per release, in order.
rmSpawn(w) ==
    /\ rmRunPc = "spawn"
    /\ rmPc[w] = "idle"
    /\ \A v \in RmWorkers : v < w => rmPc[v] # "idle"
    /\ rmPc' = [rmPc EXCEPT ![w] = "mkdir"]
    /\ rmRunPc' = IF w = Len(Releases) THEN "wait" ELSE "spawn"
    /\ UNCHANGED <<rmMu, rmLeft, rmAfter, rmStat, rmFail, rmRace>>
    /\ UNCHANGED notRmVars

\* r.mu.Lock(): the goroutine at position from takes the free mutex.
rmLock(w, from, to) ==
    /\ rmPc[w] = from
    /\ rmMu = 0
    /\ rmMu' = w
    /\ rmPc' = [rmPc EXCEPT ![w] = to]
    /\ UNCHANGED <<rmRunPc, rmLeft, rmAfter, rmStat, rmFail, rmRace>>
    /\ UNCHANGED notRmVars

\* The Lock calls of lines 244, 287, 309, 318, 323, 342 and 466.
rmLocks(w) ==
    \/ rmLock(w, "errLock", "csErr")
    \/ rmLock(w, "lock1", "cs1")
    \/ rmLock(w, "lock2", "cs2")
    \/ rmLock(w, "lockDone", "csDone")
    \/ rmLock(w, "lock5", "cs5")
    \/ rmLock(w, "lockSkip", "csSkip")
    \/ rmLock(w, "lockFail", "csFail")

\* A critical section: the accesses, then Unlock, then the next statement.
rmCritical(w, cs, stat, to) ==
    /\ rmPc[w] = cs
    /\ access(w)
    /\ rmStat' = [rmStat EXCEPT ![w] = stat]
    /\ rmMu' = IF rmMu = w THEN unlock(rmMu, cs) ELSE rmMu
    /\ rmPc' = [rmPc EXCEPT ![w] = to]

\* Lines 279-282: os.MkdirAll(releaseDir).
rmMkdir(w) ==
    /\ rmPc[w] = "mkdir"
    /\ \E ok \in BOOLEAN :
        rmPc' = [rmPc EXCEPT ![w] = IF ok THEN "lock1" ELSE "errLock"]
    /\ UNCHANGED <<rmMu, rmRunPc, rmLeft, rmAfter, rmStat, rmFail, rmRace>>
    /\ UNCHANGED notRmVars

\* Lines 287-292: FailuresPath, under the mutex.
rmCs1(w) ==
    /\ rmCritical(w, "cs1", [rmStat[w] EXCEPT !.FailuresPath = TRUE],
                  "createLog")
    /\ UNCHANGED <<rmRunPc, rmLeft, rmAfter, rmFail>>
    /\ UNCHANGED notRmVars

\* Lines 295-298: the failure log is created.
rmCreateLog(w) ==
    /\ rmPc[w] = "createLog"
    /\ rmPc' = [rmPc EXCEPT ![w] = "fetchPackages"]
    /\ UNCHANGED <<rmMu, rmRunPc, rmLeft, rmAfter, rmStat, rmFail, rmRace>>
    /\ UNCHANGED notRmVars

\* Lines 304-307: FetchPackages.
rmFetchPackages(w) ==
    /\ rmPc[w] = "fetchPackages"
    /\ \/ /\ rmPc' = [rmPc EXCEPT ![w] = "errLock"]
          /\ UNCHANGED rmLeft
       \/ \E n \in 0..MaxPkgs :
          /\ rmLeft' = [rmLeft EXCEPT ![w] = n]
          /\ rmPc' = [rmPc EXCEPT ![w] = "lock2"]
    /\ UNCHANGED <<rmMu, rmRunPc, rmAfter, rmStat, rmFail, rmRace>>
    /\ UNCHANGED notRmVars

\* Lines 309-312: Stage and Total, under the mutex.
rmCs2(w) ==
    /\ rmCritical(w, "cs2", [rmStat[w] EXCEPT !.Stage = "processing",
                                              !.Total = rmLeft[w]], "loop")
    /\ UNCHANGED <<rmRunPc, rmLeft, rmAfter, rmFail>>
    /\ UNCHANGED notRmVars

\* Line 314 and processPackage lines 337-338: the next package, if any.
rmLoop(w) ==
    /\ rmPc[w] = "loop"
    /\ rmPc' = [rmPc EXCEPT ![w] =
                   IF rmLeft[w] = 0 THEN "lock5"
                   ELSE IF ForceProcess THEN "process" ELSE "checkCache"]
    /\ UNCHANGED <<rmMu, rmRunPc, rmLeft, rmAfter, rmStat, rmFail, rmRace>>
    /\ UNCHANGED notRmVars

\* Line 338: CheckCache reads the cache file.
rmCheckCache(w) ==
    /\ rmPc[w] = "checkCache"
    /\ \E hit \in BOOLEAN :
        rmPc' = [rmPc EXCEPT ![w] = IF hit THEN "lockSkip" ELSE "process"]
    /\ UNCHANGED <<rmMu, rmRunPc, rmLeft, rmAfter, rmStat, rmFail, rmRace>>
    /\ UNCHANGED notRmVars

\* Lines 342-345: Skipped++ under the mutex; processPackage returns nil.
rmCsSkip(w) ==
    /\ rmCritical(w, "csSkip", [rmStat[w] EXCEPT !.Skipped = @ + 1],
                  "lockDone")
    /\ UNCHANGED <<rmRunPc, rmLeft, rmAfter, rmFail>>
    /\ UNCHANGED notRmVars

\* Lines 349-373: FetchDeb, ExtractManpages, the manpages, WriteCache. A
\* ConvertError goes to recordFailure and the package goes on (381-385); any
\* other error ends the package and goes to recordFailure (315-316).
rmProcess(w) ==
    /\ rmPc[w] = "process"
    /\ \/ /\ rmPc' = [rmPc EXCEPT ![w] = "lockDone"]
          /\ UNCHANGED rmAfter
       \/ /\ rmStat[w].Errors < rmStat[w].Done + 1
          /\ rmPc' = [rmPc EXCEPT ![w] = "lockFail"]
          /\ rmAfter' = [rmAfter EXCEPT ![w] = "process"]
       \/ /\ rmPc' = [rmPc EXCEPT ![w] = "lockFail"]
          /\ rmAfter' = [rmAfter EXCEPT ![w] = "lockDone"]
    /\ UNCHANGED <<rmMu, rmRunPc, rmLeft, rmStat, rmFail, rmRace>>
    /\ UNCHANGED notRmVars

\* recordFailure lines 466-470: the message and Errors++ under the mutex.
rmCsFail(w) ==
    /\ rmCritical(w, "csFail", [rmStat[w] EXCEPT !.Errors = @ + 1],
                  "appendLog")
    /\ rmFail' = [rmFail EXCEPT ![w] = @ + 1]
    /\ UNCHANGED <<rmRunPc, rmLeft, rmAfter>>
    /\ UNCHANGED notRmVars

\* recordFailure lines 473-483: the append to the failure log.
rmAppendLog(w) ==
    /\ rmPc[w] = "appendLog"
    /\ rmPc' = [rmPc EXCEPT ![w] = rmAfter[w]]
    /\ rmAfter' = [rmAfter EXCEPT ![w] = ""]
    /\ UNCHANGED <<rmMu, rmRunPc, rmLeft, rmStat, rmFail, rmRace>>
    /\ UNCHANGED notRmVars

\* Lines 318-320: Done++ under the mutex.
rmCsDone(w) ==
    /\ rmCritical(w, "csDone", [rmStat[w] EXCEPT !.Done = @ + 1], "loop")
    /\ rmLeft' = [rmLeft EXCEPT ![w] = @ - 1]
    /\ UNCHANGED <<rmRunPc, rmAfter, rmFail>>
    /\ UNCHANGED notRmVars

\* Lines 323-325: the copy of the status, under the mutex.
rmCs5(w) ==
    /\ rmCritical(w, "cs5", rmStat[w], "logDone")
    /\ UNCHANGED <<rmRunPc, rmLeft, rmAfter, rmFail>>
    /\ UNCHANGED notRmVars

\* Lines 326-329: the log line, and runRelease returns nil.
rmLogDone(w) ==
    /\ rmPc[w] = "logDone"
    /\ rmPc' = [rmPc EXCEPT ![w] = "exited"]
    /\ UNCHANGED <<rmMu, rmRunPc, rmLeft, rmAfter, rmStat, rmFail, rmRace>>
    /\ UNCHANGED notRmVars

\* Lines 242-247: runRelease returned an error; Stage under the mutex.
rmCsErr(w) ==
    /\ rmCritical(w, "csErr", [rmStat[w] EXCEPT !.Stage = "error"], "exited")
    /\ UNCHANGED <<rmRunPc, rmLeft, rmAfter, rmFail>>
    /\ UNCHANGED notRmVars

\* Line 251: wg.Wait() returns once every goroutine has returned.
rmWait ==
    /\ rmRunPc = "wait"
    /\ \A w \in RmWorkers : rmPc[w] = "exited"
    /\ rmRunPc' = "sum"
    /\ UNCHANGED <<rmMu, rmPc, rmLeft, rmAfter, rmStat, rmFail, rmRace>>
    /\ UNCHANGED notRmVars

\* Lines 266-269: the failures are counted, without the mutex.
rmSum ==
    /\ rmRunPc = "sum"
    /\ access(RunGoroutine)
    /\ rmRunPc' = "done"
    /\ UNCHANGED <<rmMu, rmPc, rmLeft, rmAfter, rmStat, rmFail>>
    /\ UNCHANGED notRmVars

NextMutex ==
    \/ rmRunInit
    \/ rmWait
    \/ rmSum
    \/ \E w \in RmWorkers :
        \/ rmSpawn(w)
        \/ rmLocks(w)
        \/ rmMkdir(w)
        \/ rmCs1(w)
        \/ rmCreateLog(w)
        \/ rmFetchPackages(w)
        \/ rmCs2(w)
        \/ rmLoop(w)
        \/ rmCheckCache(w)
        \/ rmCsSkip(w)
        \/ rmProcess(w)
        \/ rmCsFail(w)
        \/ rmAppendLog(w)
        \/ rmCsDone(w)
        \/ rmCs5(w)
        \/ rmLogDone(w)
        \/ rmCsErr(w)

SpecMutex == InitMutex /\ [][NextMutex]_vars

(***************************************************************************)
(* ParseManpagePath (paths.go:19-54), parseSection (82-94) and             *)
(* parseSectionFromFilename (96-112).                                      *)
(* A relative path is the pair of its directory segments and its file      *)
(* name, the file name being the sequence of its parts between the dots:   *)
(* usr/share/man/man1/ls.1.gz is                                           *)
(* [dirs |-> <<"usr", "share", "man", "man1">>, name |-> <<"ls","1","gz">>]*)
(***************************************************************************)

\* The most directory segments of a relative path.
MaxDirs == 3

DirSegments == {"usr", "man", "man1", "de"}

FileNames == {<<"ls", "1", "gz">>, <<"ls", "gz">>}

\* The segments of the form man<digit>... (line 33), and their digit.
ManN == {"man1"}

\* strconv.Atoi on the segment without its "man" prefix (lines 88-89):
\* the number, or -1 for an error.
AtoiSection(seg) == IF seg = "man1" THEN 1 ELSE -1

\* strings.Index(relativePath, "/man/"), line 20: the first "man" segment
\* that has a segment before it, 0 when there is none.
ManIndex(dirs) ==
    LET hits == {i \in 2..Len(dirs) : dirs[i] = "man"}
    IN  IF hits = {} THEN 0 ELSE CHOOSE i \in hits : \A j \in hits : i <= j

\* findManpages, extract.go lines 106-111, and line 20 of paths.go: the
\* files the extractor hands over and the resolver accepts.
ValidPaths ==
    {[dirs |-> d, name |-> n] :
        d \in {x \in UNION {[1..k -> DirSegments] : k \in 1..MaxDirs} :
                   ManIndex(x) # 0},
        n \in FileNames}

\* path.Clean, line 26: "." segments go, ".." takes the segment before it.
RECURSIVE pathClean(_, _)
pathClean(done, todo) ==
    IF todo = <<>> THEN done
    ELSE IF Head(todo) = "." THEN pathClean(done, Tail(todo))
    ELSE IF Head(todo) = ".." /\ done # <<>> /\ done[Len(done)] # ".."
         THEN pathClean(SubSeq(done, 1, Len(done) - 1), Tail(todo))
    ELSE pathClean(Append(done, Head(todo)), Tail(todo))

\* strings.TrimSuffix(name, ".gz"), line 38.
TrimGz(name) ==
    IF Len(name) > 1 /\ name[Len(name)] = "gz"
    THEN SubSeq(name, 1, Len(name) - 1)
    ELSE name

\* parseSectionFromFilename, lines 96-112: the digit after the last dot.
parseSectionFromFilename(name) ==
    LET n == TrimGz(name)
    IN  IF Len(n) < 2 THEN 0
        ELSE IF n[Len(n)] \in {"1", "2", "3", "4", "5", "6", "7", "8", "9"}
        THEN CHOOSE k \in 1..9 : Itoa(k) = <<n[Len(n)]>>
        ELSE 0

\* parseSection, lines 82-94, on the directories below the language.
parseSection(dirs, name) ==
    IF dirs # <<>> /\ AtoiSection(dirs[1]) # -1
    THEN AtoiSection(dirs[1])
    ELSE parseSectionFromFilename(name)

\* ParseManpagePath, lines 19-54. The paths it returns are sequences of
\* segments, the last one the file name with its new extension.
ParseManpagePath(release, p) ==
    LET idx == ManIndex(p.dirs)
        manRel == pathClean(<<>>, SubSeq(p.dirs, idx + 1, Len(p.dirs)))
        lang == IF manRel # <<>> /\ manRel[1] \notin ManN
                THEN manRel[1] ELSE ""
        base == TrimGz(p.name)
        below == IF lang # "" THEN Tail(manRel) ELSE manRel
    IN  IF idx = 0
        THEN [err |-> "missing /man/ segment"]
        ELSE [err |-> "",
              HTMLPath |-> <<"manpages", release>> \o manRel
                               \o <<base \o <<"html">>>>,
              GzipPath |-> <<"manpages.gz", release>> \o manRel
                               \o <<base \o <<"gz">>>>,
              Section |-> parseSection(below, base),
              Language |-> lang]

notPpVars ==
    <<fetchVars, runnerVars, debVars, parseVars, storeVars, ixVars,
      tocVars, smVars, rmVars, cvVars>>

\* Two manpage files of one release.
InitPaths ==
    /\ ppFiles \in [1..2 -> ValidPaths]
    /\ ppOut = <<>>
    /\ ppPc = 0
    /\ InitRunner(Releases, {FALSE}, {TRUE})
    /\ FetchIdle
    /\ DebIdle
    /\ ParseIdle
    /\ StoreIdle
    /\ IndexerIdle
    /\ TocIdle
    /\ SitemapIdle
    /\ MutexIdle
    /\ ConverterIdle

\* ProcessSingleManpage line 396: the next file is resolved.
resolvePath ==
    /\ ppPc < Len(ppFiles)
    /\ ppOut' = Append(ppOut, ParseManpagePath("jammy", ppFiles[ppPc + 1]))
    /\ ppPc' = ppPc + 1
    /\ UNCHANGED ppFiles
    /\ UNCHANGED notPpVars

NextPaths == resolvePath

SpecPaths == InitPaths /\ [][NextPaths]_vars

(***************************************************************************)
(* Converter.ConvertManpage (part_000:37-72), needsTblPreprocessing        *)
(* (77-79), runMandoc (81-93) and runWithTbl (95-129).                     *)
(* The source is the sequence of its lines; readManpageContent trims it,   *)
(* so that its last line has no newline after it.                          *)
(***************************************************************************)

\* The most lines of a manpage source.
MaxLines == 3

\* Seconds of the deadline of ConvertManpage (line 38).
ConvertDeadline == 30

\* Seconds of the deadline of the direct attempt on table input (line 51).
TblDeadline == 10

\* The lines a source is made of: a table start, a table start with the H
\* option of tbl, a section header, a table end, text.
SourceLines == {".TS", ".TS H", ".SH NAME", ".TE", "text"}

\* needsTblPreprocessing, lines 77-79: the content holds "\n.TS\n" or begins
\* with ".TS\n", that is a line that is exactly .TS and is not the last one.
needsTblPreprocessing(content) ==
    \E i \in 1..(Len(content) - 1) : content[i] = ".TS"

\* How a subprocess run under a context can end.
RunOutcomes(done) == IF done THEN {"fail"} ELSE {"ok", "fail", "timeout"}

notCvVars ==
    <<fetchVars, runnerVars, debVars, parseVars, storeVars, ixVars,
      tocVars, smVars, rmVars, ppVars>>

InitConvert ==
    /\ cvContent \in UNION {[1..n -> SourceLines] : n \in 0..MaxLines}
    /\ cvCtxDone \in BOOLEAN
    /\ cvPc = "read"
    /\ cvAttempts = <<>>
    /\ cvErr = FALSE
    /\ InitRunner(Releases, {FALSE}, {TRUE})
    /\ FetchIdle
    /\ DebIdle
    /\ ParseIdle
    /\ StoreIdle
    /\ IndexerIdle
    /\ TocIdle
    /\ SitemapIdle
    /\ MutexIdle
    /\ PathsIdle

\* The caller cancels the context while ConvertManpage runs.
cvCancel ==
    /\ cvPc \notin {"idle", "done"}
    /\ ~cvCtxDone
    /\ cvCtxDone' = TRUE
    /\ UNCHANGED <<cvContent, cvPc, cvAttempts, cvErr>>
    /\ UNCHANGED notCvVars

\* Lines 41-44 and 50: readManpageContent, then the choice of the path.
cvRead ==
    /\ cvPc = "read"
    /\ \E ok \in BOOLEAN :
        IF ok
        THEN /\ cvPc' = IF needsTblPreprocessing(cvContent)
                        THEN "direct" ELSE "plain"
             /\ UNCHANGED cvErr
        ELSE /\ cvPc' = "done"
             /\ cvErr' = TRUE
    /\ UNCHANGED <<cvContent, cvCtxDone, cvAttempts>>
    /\ UNCHANGED notCvVars

\* Lines 51-53: runMandoc under the short deadline.
cvDirect ==
    /\ cvPc = "direct"
    /\ \E out \in RunOutcomes(cvCtxDone) :
        /\ cvAttempts' = Append(cvAttempts,
               [cmd |-> "mandoc", deadline |-> TblDeadline, out |-> out])
        /\ cvPc' = IF out = "ok" THEN "done" ELSE "tbl"
    /\ UNCHANGED <<cvContent, cvCtxDone, cvErr>>
    /\ UNCHANGED notCvVars

\* Lines 54-56: runWithTbl under the deadline of ConvertManpage.
cvRunWithTbl ==
    /\ cvPc = "tbl"
    /\ \E out \in RunOutcomes(cvCtxDone) :
        /\ cvAttempts' = Append(cvAttempts,
               [cmd |-> "tbl | mandoc", deadline |-> ConvertDeadline,
                out |-> out])
        /\ cvErr' = (out # "ok")
    /\ cvPc' = "done"
    /\ UNCHANGED <<cvContent, cvCtxDone>>
    /\ UNCHANGED notCvVars

\* Lines 57-62: runMandoc under the deadline of ConvertManpage.
cvPlain ==
    /\ cvPc = "plain"
    /\ \E out \in RunOutcomes(cvCtxDone) :
        /\ cvAttempts' = Append(cvAttempts,
               [cmd |-> "mandoc", deadline |-> ConvertDeadline, out |-> out])
        /\ cvErr' = (out # "ok")
    /\ cvPc' = "done"
    /\ UNCHANGED <<cvContent, cvCtxDone>>
    /\ UNCHANGED notCvVars

NextConvert ==
    \/ cvCancel
    \/ cvRead
    \/ cvDirect
    \/ cvRunWithTbl
    \/ cvPlain

SpecConvert == InitConvert /\ [][NextConvert]_vars

(***************************************************************************)
(* Properties of the Runner                                                *)
(***************************************************************************)

\* The manpages of a package.
PagesOf(n) == {id \in Ids : id[1] = n}

\* The positions of worker w's package list that the loop has left behind.
Finished(w) == {i \in 1..Len(packages[w]) : i < pkgIdx[w]}

\* The release has a failure entry <<stage, path>>.
HasFailure(w, stage, path) ==
    \E k \in 1..Len(releaseFailures[w]) : releaseFailures[w][k] = <<stage, path>>

CountFailures(w, stage, path) ==
    Cardinality({k \in 1..Len(releaseFailures[w]) :
                    releaseFailures[w][k] = <<stage, path>>})

\* C1: a cache entry for (release, package) exists only when every manpage of
\* the package has been persisted (ProcessSingleManpage returned nil for it);
\* in particular no cache entry exists for a package one of whose manpages
\* failed conversion.
C1_CacheOnlyAfterAllPersisted ==
    \A rel \in AllReleases, n \in PkgNames :
        cache[rel][n] \in Sha1s =>
            \A id \in PagesOf(n) : mpErr[rel][id] = "nil" /\ conv[rel][id] # "fail"

\* C2: in a package the loop has finished, in which a manpage failed
\* conversion and no manpage returned another error, every manpage was
\* attempted, and every regular manpage that converted has its HTML fragment
\* and its gzip source written, before and after the failing one.
C2_PartialFailureIsolation ==
    \A w \in DOMAIN packages : \A i \in Finished(w) :
        LET rel == RelOf(w)
            n   == packages[w][i].Name
        IN  (/\ \E id \in PagesOf(n) : mpErr[rel][id] = "convert"
             /\ \A id \in PagesOf(n) : mpErr[rel][id] # "fatal")
            => \A id \in PagesOf(n) :
                /\ mpErr[rel][id] # "none"
                /\ conv[rel][id] = "ok" =>
                        html[rel][id] = "file" /\ gz[rel][id] = "file"

\* C2 witness: package foo is finished, its first manpage failed conversion
\* and its last one has both artifacts.
C2_Witness ==
    /\ runPc = "wait"
    /\ pkgIdx[1] > 1
    /\ mpErr["jammy"][<<"foo", 1>>] = "convert"
    /\ conv["jammy"][<<"foo", MaxManpages>>] = "ok"
    /\ html["jammy"][<<"foo", MaxManpages>>] = "file"
    /\ gz["jammy"][<<"foo", MaxManpages>>] = "file"

\* C6: a package for which processPackage returned an error has exactly one
\* "package" failure entry and no cache entry with its SHA1, the manpages
\* after the failing one were not touched, the loop has moved past it, and
\* the worker did not fail because of it (it is not among the failed workers
\* and its Stage is not "error"); and every manpage error other than a
\* ConvertError leads to such an entry.
C6_PackageErrorIsolated ==
    \A w \in DOMAIN packages :
        /\ \A i \in 1..Len(packages[w]) :
            LET rel == RelOf(w)
                n   == packages[w][i].Name
            IN  /\ HasFailure(w, "package", n) =>
                    /\ CountFailures(w, "package", n) = 1
                    /\ i \in Finished(w)
                    /\ cache[rel][n] # packages[w][i].SHA1
                    /\ \A id \in PagesOf(n) :
                        mpErr[rel][id] = "fatal" =>
                            \A later \in PagesOf(n) :
                                later[2] > id[2] =>
                                    /\ mpErr[rel][later] = "none"
                                    /\ html[rel][later] = "absent"
                                    /\ gz[rel][later] = "absent"
                /\ (\E id \in PagesOf(n) : mpErr[rel][id] = "fatal")
                        => HasFailure(w, "package", n)
        /\ (packages[w] # <<>>) =>
                /\ statuses[w].Stage # "error"
                /\ \A k \in 1..Len(errOrder) : errOrder[k].w # w
                /\ pc[w] = "returned" => Finished(w) = 1..Len(packages[w])

\* C6 witness: the first manpage of foo returned a storage error, the failure
\* is recorded, and the worker has gone on to finish the next package, bar.
C6_Witness ==
    /\ runPc = "wait"
    /\ mpErr["jammy"][<<"foo", 1>>] = "fatal"
    /\ HasFailure(1, "package", "foo")
    /\ cache["jammy"]["bar"] \in Sha1s
    /\ pc[1] = "returned"

ConvertFails(w, id) ==
    /\ mpErr[RelOf(w)][id] # "convert"
    /\ mpErr'[RelOf(w)][id] = "convert"

C9_CancelStopsPackageLoop ==
    [][ctxDone =>
        \A w \in DOMAIN pc :
            pc[w] = "loop" =>
                /\ pc'[w] \in {"loop", "returned"}
                /\ pkgIdx'[w] = pkgIdx[w]
                /\ statuses'[w].Done = statuses[w].Done]_vars

KindOf(id) == DebContents(id[1])[id[2]]

\* The positions of worker w's list whose package processPackage has
\* processed and returned nil for.
Succeeded(w) ==
    {i \in Finished(w) : ~HasFailure(w, "package", packages[w][i].Name)}

\* C17 (as stated): after processPackage returned nil for a package, the
\* HTML path and the gzip path of each of its manpages that is not a
\* filesystem symlink exist.
C17_BothPathsExist ==
    \A w \in DOMAIN packages : \A i \in Succeeded(w) :
        \A id \in PagesOf(packages[w][i].Name) :
            KindOf(id) # "symlink" =>
                /\ html[RelOf(w)][id] # "absent"
                /\ gz[RelOf(w)][id] # "absent"

\* C17 (amended): after processPackage returned nil for a package in a first
\* ingest, a regular manpage whose conversion succeeded has its HTML file and
\* its gzip file; a manpage whose first line is a ".so" directive has an HTML
\* symlink and no gzip path; a filesystem symlink has both symlinks; and a
\* regular manpage whose conversion failed has neither path.
C17_PathsAfterSuccess ==
    \A w \in DOMAIN packages : \A i \in Succeeded(w) :
        \A id \in PagesOf(packages[w][i].Name) :
            LET h == html[RelOf(w)][id]
                g == gz[RelOf(w)][id]
            IN  /\ (KindOf(id) = "regular" /\ conv[RelOf(w)][id] = "ok") =>
                        h = "file" /\ g = "file"
                /\ (KindOf(id) = "regular" /\ conv[RelOf(w)][id] # "ok") =>
                        /\ mpErr[RelOf(w)][id] = "convert"
                        /\ h = "absent" /\ g = "absent"
                /\ KindOf(id) = "so" => h = "symlink" /\ g = "absent"
                /\ KindOf(id) = "symlink" => h = "symlink" /\ g = "symlink"

\* C17 witness: foo and bar were processed without a package error; foo's
\* manpages were converted and written, bar's ".so" page has its HTML
\* symlink only.
C17_Witness ==
    /\ runPc = "wait"
    /\ Succeeded(1) = {1, 2}
    /\ \A id \in PagesOf("foo") :
        /\ conv["jammy"][id] = "ok"
        /\ html["jammy"][id] = "file" /\ gz["jammy"][id] = "file"
    /\ html["jammy"][<<"bar", 2>>] = "symlink"
    /\ gz["jammy"][<<"bar", 2>>] = "absent"

\* The worker of a release is between two packages or has returned.
BetweenPackages(w) == pc[w] \in {"loop", "returned"}

\* The exit paths of processPackage a worker has gone through so far.
PackageEnded(w) == w \in DOMAIN statuses /\ (statuses[w].Done > 0 \/ pc[w] = "returned")

WorkerOf(rel) == {w \in Workers : RelOf(w) = rel}

\* C27: for a regular manpage the effects come in the order convert,
\* transform, write HTML, submit the search document, write gzip, and a step
\* that fails prevents every later one: the HTML is written only after a
\* successful conversion, the document is submitted only after the HTML is
\* written, the gzip source is written only after the document is accepted.
\* An error other than a conversion failure is fatal for the package: the
\* package is recorded as failed, its later manpages are left alone and no
\* cache entry is written for it.
C27_StepsInOrder ==
    \A rel \in AllReleases, id \in Ids :
        KindOf(id) = "regular" =>
            /\ <<"html", rel, id>> \in wrote => conv[rel][id] = "ok"
            /\ <<rel, id>> \in indexer.rows =>
                   <<"html", rel, id>> \in wrote /\ html[rel][id] = "file"
            /\ <<"gz", rel, id>> \in wrote => <<rel, id>> \in indexer.rows
            /\ gz[rel][id] # "absent" => <<"gz", rel, id>> \in wrote
            /\ mpErr[rel][id] = "fatal" =>
                   /\ gz[rel][id] # "file"
                   /\ \A w \in WorkerOf(rel) : HasFailure(w, "package", id[1])
                   /\ cache[rel][id[1]] \notin Sha1s
                   /\ \A later \in PagesOf(id[1]) :
                          later[2] > id[2] => mpErr[rel][later] = "none"

\* C27 witness: the first manpage of a package was converted, written and
\* indexed, then failed before its gzip source was written; the worker has
\* left the package without touching its second manpage.
C27_Witness ==
    \E w \in Workers :
        LET rel == RelOf(w) IN
        /\ pc[w] = "loop"
        /\ mpErr[rel][<<"foo", 1>>] = "fatal"
        /\ <<rel, <<"foo", 1>>>> \in indexer.rows
        /\ gz[rel][<<"foo", 1>>] = "absent"
        /\ mpErr[rel][<<"foo", 2>>] = "none"
        /\ HasFailure(w, "package", "foo")

(***************************************************************************)
(* Properties of the second ingest                                         *)
(***************************************************************************)

\* The SHA1 the previous index gave for package n of release rel.
PrevSha1(rel, n) ==
    LET i == CHOOSE j \in 1..Len(prev.index[rel]) : prev.index[rel][j].Name = n
    IN  prev.index[rel][i].SHA1

\* No converter invocation and no file write for package n in this run.
Untouched(rel, n) ==
    /\ \A id \in PagesOf(n) :
        /\ conv[rel][id] = "none"
        /\ mpErr[rel][id] = "none"
        /\ <<"html", rel, id>> \notin wrote
        /\ <<"gz", rel, id>> \notin wrote
    /\ <<"cache", rel, n>> \notin wrote

\* C3 (as stated): in a second run with ForceProcess off over an index in
\* which no SHA1 changed, no HTML file and no gzip file is written, the
\* converter is never invoked, and every package is skipped.
C3_SecondRunDoesNothing ==
    (run = 2 /\ ~ForceProcess /\ index = prev.index) =>
        /\ wrote = {}
        /\ conv = NoConv
        /\ \A w \in DOMAIN statuses :
            statuses[w].Skipped = Cardinality(Finished(w))

\* The positions of worker w's list whose package the previous run completed
\* (processPackage returned nil), whose SHA1 is the one of the previous index
\* and whose cache file could be read in this run.
Cached(w) ==
    {i \in 1..Len(packages[w]) :
        /\ <<RelOf(w), packages[w][i].Name>> \in prev.ok
        /\ packages[w][i].SHA1 = PrevSha1(RelOf(w), packages[w][i].Name)
        /\ <<RelOf(w), packages[w][i].Name>> \notin unreadable}

\* C3 (amended): in a second run with ForceProcess off, a package that the
\* first run completed, whose SHA1 did not change and whose cache file can be
\* read is skipped by the cache check: no HTML or gzip file of it is written,
\* the converter is not invoked for it, and it is counted in Skipped; no
\* other package is skipped.
C3_CacheIdempotence ==
    (run = 2 /\ ~ForceProcess) =>
        \A w \in DOMAIN statuses :
            /\ \A i \in Cached(w) : Untouched(RelOf(w), packages[w][i].Name)
            /\ statuses[w].Skipped = Cardinality(Cached(w) \cap Finished(w))

\* C3 witness: the second run, with an unchanged index, has skipped both
\* packages of the release and left the artifact of the first run in place.
C3_Witness ==
    /\ run = 2 /\ ~ForceProcess /\ index = prev.index
    /\ pc[1] = "returned"
    /\ statuses[1].Skipped = 2
    /\ wrote = {} /\ conv = NoConv
    /\ html["focal"][<<"baz", 1>>] = "file"
    /\ gz["focal"][<<"baz", 1>>] = "file"

\* C30: the search index holds documents only of manpages that the
\* converter converted in this run; in a second run with ForceProcess off it
\* holds none of a package skipped by the cache check.
C30_IndexHoldsOnlyThisRun ==
    /\ \A rel \in AllReleases : \A id \in Ids :
            <<rel, id>> \in indexer.rows => conv[rel][id] = "ok"
    /\ (run = 2 /\ ~ForceProcess) =>
            \A w \in DOMAIN statuses : \A i \in Cached(w) :
                \A id \in PagesOf(packages[w][i].Name) :
                    <<RelOf(w), id>> \notin indexer.rows

\* C30 witness: the second run has returned; it processed a package and
\* skipped another one, whose manpage the first run had converted: the page
\* is in the output tree and not in the search index.
C30_Witness ==
    /\ run = 2 /\ ~ForceProcess
    /\ runPc = "returned"
    /\ wrote # {}
    /\ \E w \in DOMAIN statuses : \E i \in Cached(w) \cap Finished(w) :
           \E id \in PagesOf(packages[w][i].Name) :
               /\ html[RelOf(w)][id] = "file"
               /\ <<RelOf(w), id>> \notin indexer.rows

(***************************************************************************)
(* Properties of FetchPackages                                             *)
(***************************************************************************)

\* The candidates named n that the cells serve, in merge order.
CandidatesOf(n) ==
    UNION {{cells[i].candidates[k] : k \in
                {j \in 1..Len(cells[i].candidates) :
                    cells[i].candidates[j].Name = n}} : i \in Cells}

\* The cell a candidate comes from.
CellOf(c) == c.Filename[2]

Parsable(v) == ~Parse(v).err

\* FetchPackages has returned a package list.
FetchReturned == fetchPc = "returned" /\ fetchOut.err = nil

Selected(n) ==
    {fetchOut.packages[k] : k \in
        {j \in DOMAIN fetchOut.packages : fetchOut.packages[j].Name = n}}

\* C4: FetchPackages returns exactly one Package for every name that has a
\* candidate; no candidate of the name has a higher Debian version than the
\* selected one, and among the candidates with the highest version the
\* selected one is the first in pocket order.
C4_HighestVersionSelected ==
    FetchReturned =>
        /\ Len(fetchOut.packages) =
                Cardinality({n \in FetchNames : CandidatesOf(n) # {}})
        /\ \A n \in FetchNames :
            CandidatesOf(n) # {} =>
                /\ Cardinality(Selected(n)) = 1
                /\ \A sel \in Selected(n) :
                    /\ sel \in CandidatesOf(n)
                    /\ \A c \in CandidatesOf(n) :
                        Parsable(c.Version) =>
                            /\ Parsable(sel.Version)
                            /\ Compare(Parse(c.Version), Parse(sel.Version)) <= 0
                            /\ Compare(Parse(c.Version), Parse(sel.Version)) = 0
                                    => CellOf(sel) <= CellOf(c)

\* C5: whenever a name has a candidate whose version can be parsed, the
\* Package selected for the name has a version that can be parsed, whatever
\* the order in which the candidates appear.
C5_UnparsableNeverWins ==
    FetchReturned =>
        \A n \in FetchNames :
            (\E c \in CandidatesOf(n) : Parsable(c.Version)) =>
                \A sel \in Selected(n) : Parsable(sel.Version)

\* The packages map after the results of the cells from i on are merged
\* into pkgs in cell-index order.
RECURSIVE MergeInOrder(_, _)
MergeInOrder(pkgs, i) ==
    IF i > NumCells THEN pkgs
    ELSE MergeInOrder(mergeCandidates(pkgs, cells[i].candidates), i + 1)

\* C29: the result of FetchPackages does not depend on the order in which
\* the cells complete: every cell writes only its own slot, with what the
\* archive serves for that cell, and the Package selected for every name is
\* the one a merge of the cells in index order selects.
C29_IndependentOfCompletionOrder ==
    /\ \A i \in DOMAIN results : results[i] # nil => results[i] = fetchResult(i)
    /\ FetchReturned =>
           \A n \in FetchNames :
               Selected(n) = IF n \in DOMAIN MergeInOrder(<<>>, 1)
                             THEN {MergeInOrder(<<>>, 1)[n]}
                             ELSE {}

\* C29 witness: FetchPackages has returned packages after a cell finished
\* before a cell of lower index, the first and the last cell serving the
\* same name in different versions.
C29_Witness ==
    /\ FetchReturned
    /\ overtaken
    /\ \E n \in FetchNames : \E c, d \in CandidatesOf(n) :
           /\ CellOf(c) = 1 /\ CellOf(d) = NumCells
           /\ c.Version # d.Version
           /\ \E sel \in Selected(n) : sel.Version = d.Version

(***************************************************************************)
(* Properties of FetchDeb                                                  *)
(***************************************************************************)

DebReturned == debPc = "returned"

\* C11: FetchDeb makes at most MaxAttempts (three) download attempts; no
\* attempt follows a successful one, and FetchDeb returns the destination
\* path exactly when its last attempt succeeded; when three attempts failed
\* it returns the error of the third; and it gives up before the third
\* failed attempt only when the work directory cannot be created or the
\* context is cancelled.
C11_AtMostThreeAttempts ==
    /\ Len(debRequests) <= MaxAttempts
    /\ \A k \in 1..Len(debRequests) :
        debRequests[k] = "ok" => k = Len(debRequests) /\ DebReturned
    /\ DebReturned =>
        /\ (debOut.err = nil) <=>
                (debRequests # <<>> /\ debRequests[Len(debRequests)] = "ok")
        /\ debOut.err = nil => debOut.path = "deb" /\ "deb" \in debFiles
        /\ debOut.err # nil => debOut.path = ""
        /\ (Len(debRequests) = MaxAttempts /\ debOut.err # nil) =>
                debOut.err = AttemptError(debRequests[MaxAttempts])
        /\ (debOut.err # nil /\ ~debCtxDone /\ debRequests # <<>>) =>
                Len(debRequests) = MaxAttempts

\* C11 witness: three attempts failed in transport and FetchDeb returned the
\* error of the last one.
C11_Witness ==
    /\ DebReturned
    /\ ~debCtxDone
    /\ debRequests = <<"transport", "transport", "transport">>
    /\ debOut = [path |-> "", err |-> <<"download deb", "transport">>]

\* C12: an attempt answered with a status outside 2xx is the last attempt:
\* FetchDeb returns its error without another request.
C12_NoRetryOnHTTPStatus ==
    \A k \in 1..Len(debRequests) :
        debRequests[k] = "status" =>
            /\ k = Len(debRequests)
            /\ debPc = "returned"
            /\ debOut.err = AttemptError("status")

\* The cells whose download, decompression or parse fails.
FailingCells == {i \in Cells : cells[i].err # ""}

\* C13: the merge starts only after every cell's goroutine has stored its
\* result; FetchPackages returns an error exactly when some cell failed, and
\* then it returns no package list, whatever the other cells served: the
\* error is that of the first failing cell in pocket order.
C13_AnyCellErrorFailsAll ==
    /\ fetchPc \in {"merge", "returned"} => \A i \in Cells : results[i] # nil
    /\ fetchPc = "fetching" => merged = <<>> /\ mergeIdx = 1
    /\ fetchPc = "returned" =>
        /\ (fetchOut.err # nil) <=> (FailingCells # {})
        /\ FailingCells # {} =>
            /\ fetchOut.packages = nil
            /\ fetchOut.err =
                <<cells[Min(FailingCells)].err, "packages", Min(FailingCells)>>

\* C13 witness: the first and the last cell serve a package, the index of the
\* second cannot be parsed, and FetchPackages returned that error and no
\* package.
C13_Witness ==
    /\ fetchPc = "returned"
    /\ FailingCells = {2}
    /\ cells[1].candidates # <<>>
    /\ cells[NumCells].candidates # <<>>
    /\ merged # <<>>
    /\ fetchOut = [packages |-> nil, err |-> <<"parse", "packages", 2>>]

(***************************************************************************)
(* Properties of parsePackages                                             *)
(***************************************************************************)

\* The Package of stanza k when it holds all four fields.
StanzaPackage(k) ==
    [Name |-> <<"Package", k>>, Version |-> <<"Version", k>>,
     Filename |-> <<"Filename", k>>, SHA1 |-> <<"SHA1", k>>]

\* The stanzas of the index that hold all four fields, in order.
CompleteStanzas ==
    SelectSeq([k \in 1..Len(parseStanzas) |-> k],
              LAMBDA k : parseStanzas[k] = Fields)

\* C14: parsePackages returns, in order, exactly the stanzas that hold all of
\* Package, Version, Filename and SHA1; a stanza missing one of them is
\* dropped without an error and without effect on the others.
C14_DropsIncompleteStanzas ==
    (parsePc = "returned" /\ parseOut.err = nil) =>
        parseOut.packages =
            [j \in 1..Len(CompleteStanzas) |-> StanzaPackage(CompleteStanzas[j])]

(***************************************************************************)
(* Properties of the storage writes                                        *)
(***************************************************************************)

\* The destination held a symlink that is dangling or part of a cycle.
DanglingOrCircular(fs) ==
    /\ fs[Dest].kind = "link"
    /\ \/ Resolve(fs, Dest) = "ELOOP"
       \/ fs[Resolve(fs, Dest)].kind = "absent"

\* C15: a write that returns no error leaves a regular file with the given
\* content at the destination, whatever the destination held before (a
\* dangling symlink, a symlink of a cycle, a symlink to another file); and at
\* no time does the write change any other path.
C15_WriteReplacesSymlink ==
    /\ \A p \in StorePaths \ {Dest} :
        storePc # "idle" => storeFs[p] = storeFs0[p]
    /\ (storePc = "returned" /\ storeOut = nil) => storeFs[Dest] = File("new")
    /\ storePc = "write" => storeFd = Dest

\* C15 witness: the destination was a symlink of the cycle a -> b -> a, the
\* write returned no error, the destination is a regular file with the
\* content and the other link is as it was.
C15_Witness ==
    /\ storePc = "returned" /\ storeOut = nil
    /\ storeFs0 = [p \in StorePaths |->
                    IF p = Dest THEN Link("b.html") ELSE Link(Dest)]
    /\ DanglingOrCircular(storeFs0)
    /\ storeFs[Dest] = File("new")
    /\ storeFs["b.html"] = Link(Dest)

\* C16: when the destination held a complete file before the write, every
\* concurrent reader observes that file's content or the complete new
\* content, never a missing or partly written file.
C16_AtomicReplacement ==
    (storePc # "idle" /\ storeFs0[Dest].kind = "file") =>
        storeSeen \subseteq {"old", "new"}

(***************************************************************************)
(* Properties of the SQLiteIndexer                                         *)
(***************************************************************************)

\* The batches that hold a document.
BatchesOf(doc) == {b \in DOMAIN sqlite.batches : doc \in sqlite.batches[b].rows}

\* The document is in a transaction that was committed.
Committed(doc) == \E b \in BatchesOf(doc) : sqlite.batches[b].state = "committed"

\* The goroutines inside IndexManpage or Close.
InCall == {g \in Goroutines : ixPc[g] \notin {"idle", "closed"}}

\* C19: once Close has run, the database connection is closed, whatever the
\* final commit reported, and every document accepted by a successful
\* IndexManpage call before it is committed.
C19_CloseCommitsAndCloses ==
    /\ ixPc[Closer] \in {"unlock", "closed"} => sqlite.dbClosed
    /\ ixPc[Closer] = "unlock" => \A doc \in ixOk : Committed(doc)

\* C20: IndexManpage and Close are serialized by the mutex: at most one call
\* is between its Lock and its Unlock, no insert runs on an absent or
\* finished transaction, every document of a successful call is a row of
\* exactly one batch, and between calls s.count is the number of rows of the
\* open batch, which never reaches batchSize rows.
C20_SerializedByMutex ==
    /\ Cardinality(InCall) <= 1
    /\ ~sqlite.fault
    /\ \A doc \in ixOk : Cardinality(BatchesOf(doc)) = 1
    /\ \A b \in DOMAIN sqlite.batches :
           Cardinality(sqlite.batches[b].rows) <= batchSize
    /\ InCall = {} =>
           IF sqlite.tx = 0
           THEN sqlite.count = 0
           ELSE /\ sqlite.batches[sqlite.tx].state = "open"
                /\ sqlite.count = Cardinality(sqlite.batches[sqlite.tx].rows)
                /\ sqlite.count < batchSize

\* C20 witness: two workers have both indexed a document with success into
\* the same batch, which was committed, and Close has returned.
C20_Witness ==
    /\ ixPc[Closer] = "closed"
    /\ \E b \in DOMAIN sqlite.batches :
        /\ sqlite.batches[b].state = "committed"
        /\ \E d1, d2 \in sqlite.batches[b].rows :
            /\ d1[1] # d2[1]
            /\ {d1, d2} \subseteq ixOk

\* The batches on which a commit was issued.
Flushed == {b \in DOMAIN sqlite.batches : sqlite.batches[b].state # "open"}

\* The flushed batches that hold fewer than batchSize rows.
ShortBatches ==
    {b \in Flushed : Cardinality(sqlite.batches[b].rows) < batchSize}

\* Between calls the rows not yet committed are those of the open batch:
\* fewer than batchSize, counted by s.count, none without a transaction.
PendingInRange ==
    InCall = {} =>
        IF sqlite.tx = 0
        THEN sqlite.count = 0
        ELSE /\ sqlite.count = Cardinality(sqlite.batches[sqlite.tx].rows)
             /\ sqlite.count \in 0..(batchSize - 1)

\* C21 as stated: between calls the uncommitted rows are between 0 and
\* batchSize - 1, 0 without a transaction, and a commit is issued exactly
\* when the last row of a full batch has been inserted: every batch a commit
\* was issued on holds exactly batchSize rows.
C21_CommitExactlyAtBatchSize ==
    /\ PendingInRange
    /\ \A b \in Flushed : Cardinality(sqlite.batches[b].rows) = batchSize

\* C21 amended: no batch exceeds batchSize rows, IndexManpage issues a
\* commit exactly on a batch of batchSize rows, and the only commit on a
\* shorter batch is the one Close issues on the batch open when it runs.
C21_CommitAtBatchSizeOrClose ==
    /\ PendingInRange
    /\ \A b \in DOMAIN sqlite.batches :
           Cardinality(sqlite.batches[b].rows) <= batchSize
    /\ Cardinality(ShortBatches) <= 1
    /\ ShortBatches # {} => ixPc[Closer] \in {"closeDb", "unlock", "closed"}

\* C21 witness: IndexManpage has flushed a full batch, Close has flushed a
\* shorter, non-empty one, and no call is in progress.
C21_Witness ==
    /\ InCall = {}
    /\ \E b \in Flushed : Cardinality(sqlite.batches[b].rows) = batchSize
    /\ \E b \in ShortBatches : sqlite.batches[b].rows # {}

(***************************************************************************)
(* Properties of bGenerateTOC                                              *)
(***************************************************************************)

\* The headings of the body that carry the id.
HeadingsWithId(id) == {k \in DOMAIN tocBody : tocBody[k] = id}

\* C22: the slugs given to the headings are pairwise distinct, and every TOC
\* link resolves to exactly one heading id of the body.
C22_SlugsPairwiseDistinct ==
    tocPc = "done" =>
        /\ \A j, k \in DOMAIN tocBody : j # k => tocBody[j] # tocBody[k]
        /\ \A k \in DOMAIN tocLinks :
               Cardinality(HeadingsWithId(tocLinks[k])) = 1

(***************************************************************************)
(* Properties of the sitemap generator                                     *)
(***************************************************************************)

\* Generate has returned, and neither the context, nor the static sitemap,
\* nor the write of the index itself made it fail.
GenerateRanThrough ==
    /\ smPc = "done"
    /\ ~smCtxDone
    /\ smErr \notin {"create sitemaps dir", "write static sitemap", "create"}

\* C23: a release directory or a section directory that cannot be read, or a
\* sitemap file that cannot be written, is skipped: Generate goes on with
\* the other releases and still writes sitemap-index.xml.
C23_SitemapFailureIsolation ==
    GenerateRanThrough =>
        /\ smIndex.written
        /\ smRel = Len(Releases) + 1

\* C24: the index references every sitemap file emitted during the call, and
\* no file that was not written.
C24_IndexReferencesEveryFile ==
    smIndex.written => smIndex.refs = smFiles

(***************************************************************************)
(* Properties of the mutex of the Runner                                   *)
(***************************************************************************)

\* C25: no goroutine holds r.mu while it is inside a file operation, a
\* network request or a subprocess, and every access to the status records
\* and the failure lists made while release goroutines run is made with
\* r.mu held.
C25_MutexNeverHeldAcrossIO ==
    /\ \A w \in RmWorkers : rmMu = w => rmPc[w] \notin IoPositions
    /\ rmMu # 0 => rmMu \in Running
    /\ ~rmRace

\* C25 witness: one goroutine is inside the append to the failure log after
\* it recorded a failure, while another one holds the mutex.
C25_Witness ==
    \E v, w \in RmWorkers :
        /\ rmPc[v] = "appendLog"
        /\ rmFail[v] > 0
        /\ rmMu = w
        /\ w # v

(***************************************************************************)
(* Properties of the path resolver                                         *)
(***************************************************************************)

\* C26: for one release, two distinct valid relative manpage paths never
\* get the same html_path nor the same gzip_path.
C26_ResolverInjective ==
    ppPc = 2 =>
        (ppFiles[1] # ppFiles[2] =>
            /\ ppOut[1].HTMLPath # ppOut[2].HTMLPath
            /\ ppOut[1].GzipPath # ppOut[2].GzipPath)

(***************************************************************************)
(* Properties of the converter                                             *)
(***************************************************************************)

\* The source contains a table block: .TS at the start of a line.
HasTableBlock == \E i \in DOMAIN cvContent : cvContent[i] \in {".TS", ".TS H"}

\* C28: for a source with a table block the converter is first run directly
\* under the 10-second deadline and, whenever that run fails or times out,
\* the tbl pipeline is run under the overall deadline, an error being
\* returned only when both fail; for a source without a table block there is
\* exactly one run of the converter and no fallback.
C28_ConverterFallback ==
    (cvPc = "done" /\ cvAttempts # <<>>) =>
        IF HasTableBlock
        THEN /\ cvAttempts[1].cmd = "mandoc"
             /\ cvAttempts[1].deadline = TblDeadline
             /\ cvAttempts[1].out # "ok" =>
                    /\ Len(cvAttempts) = 2
                    /\ cvAttempts[2].cmd = "tbl | mandoc"
                    /\ cvAttempts[2].deadline = ConvertDeadline
             /\ cvErr <=> \A k \in DOMAIN cvAttempts : cvAttempts[k].out # "ok"
        ELSE /\ Len(cvAttempts) = 1
             /\ cvAttempts[1].cmd = "mandoc"
             /\ cvAttempts[1].deadline = ConvertDeadline

====
